---- MODULE Spec2Model ----
(***************************************************************************)
(* Gimbal control of the auto-attack robot: the GimbalController actuator  *)
(* (serial_comm.cpp, second half), and the orchestrator of main.cpp with   *)
(* its patrol thread, detection (tracking) thread and main thread.         *)
(*                                                                         *)
(* Time is counted in units of 50 ms.  The detection thread samples        *)
(* currentTime once per processed frame; the model keeps, for each of its  *)
(* three time stamps, the elapsed time at the latest sample, saturated     *)
(* above the largest value the code compares it with.                      *)
(*                                                                         *)
(* A command frame counts as written when sendCommand hands it to          *)
(* SerialComm::send on an open port; none of the callers modelled here     *)
(* reads the result of the write.                                          *)
(***************************************************************************)
EXTENDS Integers, Sequences, FiniteSets, TLC

\* ---------------------------------------------------------------- bounds
MaxTicks == 3
MaxTrackTicks == 4
MaxDetectTicks == 2
MaxPatrolSteps == 2
MaxSweepSteps == 820
MaxDt == 5
MaxGap == 22
LockCap == 20

\* ------------------------------------------------------ program constants
TargetLostTimeout == 20
ShootingDelay == 0
ShootPulseOn == 8
ShootPulseOff == 4
StepSize == 25
CenterMargin == 100
CenterAngle == 15000
PatrolRange == 13000
PatrolSpeed == 50
AccelerationZone == 500
MinSpeed == 30
MaxAngle == 30000
InitialPic == 11000
InitialYaw == 20000

LeftLimit == CenterAngle + PatrolRange
RightLimit == CenterAngle - PatrolRange

Threads == {"main", "track", "patrol"}

VARIABLES
    pc,                 \* position of main, track, patrol and recv
    g_running, g_targetLock, g_shooting, g_gimbalMutex, g_currentYawAngle,
    g_targetType,
    m_initialized, m_running, m_isOpen,
    m_picAngle, m_yawAngle, m_shootStatus, m_idleAngle,
    m_received,         \* telemetry snapshot
    currentAngle, direction,                    \* locals of patrolThread
    elapsedSinceLost, elapsedSinceLock, elapsedSincePulse,
    bestDet, newAngle, imageCenterX,            \* locals of detectionThread
    frm, ld,            \* sendCommand: frame being built, fields loaded
    lastWrite,          \* history: writer and shoot field of the last frame written
    tick,               \* history: the tick in progress, as it began
    absence,            \* history: time since the first empty tick of the run
    run,                \* history: the lock in progress
    nTicks, nPatrol,    \* counters of the bounds
    m_port,             \* SerialComm: the port named in the last open
    handles,            \* the ports on which the process holds an OS descriptor
    m_handle,           \* SerialComm: the descriptor, -1 when there is none
    m_mutex,            \* SerialComm: owner of the transport lock, "none" if free
    io,                 \* per thread: its position inside a SerialComm call
    wire,               \* history: the pieces ::write put on the line, in order
    m_statusMutex,      \* GimbalController: owner of the snapshot lock
    rx,                 \* receiveThreadFunc: available, parsed values; history
    gs,                 \* getReceivedStatus: position and output of a reader
    call                \* history: the last call made by the call-by-call driver

vars == <<pc, g_running, g_targetLock, g_shooting, g_gimbalMutex,
          g_currentYawAngle, g_targetType, m_initialized, m_running, m_isOpen,
          m_picAngle, m_yawAngle, m_shootStatus, m_idleAngle, m_received,
          currentAngle, direction, elapsedSinceLost, elapsedSinceLock,
          elapsedSincePulse, bestDet, newAngle, imageCenterX, frm, ld,
          lastWrite, tick,
          absence, run, nTicks, nPatrol, m_port, handles,
          m_handle, m_mutex, io, wire, m_statusMutex, rx, gs, call>>

gimbalVars == <<m_picAngle, m_yawAngle, m_shootStatus, m_idleAngle>>
patrolVars == <<currentAngle, direction, nPatrol>>
timeVars == <<elapsedSinceLost, elapsedSinceLock, elapsedSincePulse>>
histVars == <<lastWrite, tick, absence, run>>
sendVars == <<frm, ld>>
ctlVars == <<m_initialized, m_running, m_isOpen, m_received, g_targetType>>
wireVars == <<m_mutex, io, wire>>
statusVars == <<m_statusMutex, rx, gs>>
extVars == <<m_port, handles, m_handle, call, wireVars, statusVars>>

\* ---------------------------------------------------------------- helpers
Max(a, b) == IF a > b THEN a ELSE b
Min(a, b) == IF a < b THEN a ELSE b
Abs(a) == IF a < 0 THEN -a ELSE a
U16(x) == x % 65536

\* C++ integer division truncates toward zero.
CDiv(a, b) == IF a >= 0 THEN a \div b ELSE -((-a) \div b)

\* elapsed time a, dt later, saturated at cap
Age(a, dt, cap) == Min(a + dt, cap)

NoDet == [classId |-> -1, confidence |-> 0, x1 |-> 0, x2 |-> 0]
NoFrame == [pic |-> 0, yaw |-> 0, shoot |-> 0, idle |-> 0]
NoWrite == [by |-> "none", shoot |-> 0]
NoTick == [locked |-> FALSE, shoot |-> 0, pulse |-> 0, prevLock |-> 0, sent |-> -1,
           frame |-> << >>]
NoRun == [centered |-> FALSE, fired |-> FALSE, edges |-> 0]
ZeroStatus == [pic |-> 0, yaw |-> 0, shoot |-> 0, idle |-> 0]
\* receiveThreadFunc before its first poll; stored is the last frame whose
\* four fields were all written, last is what the last poll came to
NoRx == [available |-> 0, parsed |-> ZeroStatus, stored |-> ZeroStatus,
         last |-> "none", polls |-> 0]
\* a reader outside getReceivedStatus
NoGs == [pc |-> "idle", out |-> ZeroStatus, calls |-> 0]

\* the threads that call into the transport
WireThreads == {"main", "patrol", "track", "recv"}
NoIo == [pc |-> "idle", op |-> "none", ret |-> TRUE, sawOpen |-> FALSE,
         written |-> 0, target |-> 0, calls |-> 0]
NoCall == [op |-> "none", arg |-> 0, ret |-> "void", wrote |-> << >>,
           tried |-> << >>, openable |-> {}, writeOk |-> TRUE, kept |-> TRUE,
           wasInit |-> FALSE, port |-> "", stale |-> FALSE, wasStale |-> FALSE,
           wasOpen |-> FALSE, os |-> << >>, count |-> 0, released |-> 0]

\* ------------------------------------------------------- detector, tables
ClassNames ==
    <<"blue100", "blue200", "blue300", "blue400", "blue500",
      "red100", "red200", "red300", "red400", "red500">>

getClassName(classId) ==
    IF classId >= 0 /\ classId < Len(ClassNames)
    THEN ClassNames[classId + 1]
    ELSE "unknown"

MappedNames ==
    {"blue100", "blue200", "blue300", "blue400", "blue500",
     "red100", "red200", "red300", "red400", "red500"}

ELEVATION_MAPPING_Swapped(name) ==
    CASE name = "blue100" -> 6000
      [] name = "blue200" -> 8500
      [] name = "blue300" -> 9500
      [] name = "blue400" -> 10000
      [] name = "blue500" -> 14500
      [] name = "red100" -> 8000
      [] name = "red200" -> 10000
      [] name = "red300" -> 18000
      [] name = "red400" -> 14000
      [] name = "red500" -> 20000

ELEVATION_MAPPING(name) ==
    CASE name = "blue100" -> 6000
      [] name = "blue200" -> 8500
      [] name = "blue300" -> 9500
      [] name = "blue400" -> 10000
      [] name = "blue500" -> 14500
      [] name = "red100" -> 8000
      [] name = "red200" -> 10000
      [] name = "red300" -> 14000
      [] name = "red400" -> 18000
      [] name = "red500" -> 20000

\* clampAngle without its upper limit
clampAngle_LowOnly(angle) ==
    IF angle < 0 THEN 0 ELSE angle

clampAngle(angle) ==
    IF angle < 0 THEN 0 ELSE IF angle > MaxAngle THEN MaxAngle ELSE angle

targetStartId == IF g_targetType = "red" THEN 5 ELSE 0
targetEndId == IF g_targetType = "red" THEN 9 ELSE 4

\* std::copy_if of main.cpp: the detections of the selected colour band
TargetDetections(allDetections) ==
    SelectSeq(allDetections,
              LAMBDA det : det.classId >= targetStartId /\ det.classId <= targetEndId)

\* std::max_element with comparator a.confidence < b.confidence:
\* the first element no later element exceeds
RECURSIVE MaxElementFrom(_, _, _)
MaxElementFrom(s, i, largest) ==
    IF i > Len(s) THEN largest
    ELSE MaxElementFrom(s, i + 1,
                        IF largest.confidence < s[i].confidence THEN s[i] ELSE largest)

\* max_element keeping the last of several equal confidences
MaxElement_LastOfEquals(s) ==
    LET best == CHOOSE i \in 1..Len(s) :
                   /\ \A j \in 1..Len(s) : s[j].confidence <= s[i].confidence
                   /\ \A j \in (i + 1)..Len(s) : s[j].confidence < s[i].confidence
    IN  s[best]

MaxElement(s) == MaxElementFrom(s, 2, s[1])

TargetCenterX(det) == CDiv(det.x1 + det.x2, 2)
xDeviation == TargetCenterX(bestDet) - imageCenterX
centerStable == Abs(xDeviation) <= CenterMargin

\* ------------------------------------------------------------------ inputs
Det(c, conf, x1, x2) == [classId |-> c, confidence |-> conf, x1 |-> x1, x2 |-> x2]

\* bounding boxes: dead centre, on the margin (deviation 100), just past it on
\* either side (deviation 101 and -101)
Boxes == {<<600, 680>>, <<700, 781>>, <<701, 781>>, <<499, 579>>}

SingleFrames ==
    {<<Det(c, 90, b[1], b[2])>> : c \in 0..9, b \in Boxes}

MultiFrames ==
    { <<Det(5, 50, 600, 680), Det(7, 90, 701, 781)>>,
      <<Det(7, 90, 600, 680), Det(9, 90, 499, 579)>>,
      <<Det(0, 95, 600, 680), Det(6, 40, 600, 680)>>,
      <<Det(2, 60, 499, 579), Det(3, 60, 600, 680), Det(8, 30, 701, 781)>> }

\* the frames of detections a tick may receive (all 1280 pixels wide)
Frames == {<< >>} \cup SingleFrames \cup MultiFrames
FrameCols == {1280}

\* tick spacings used where the threads interleave: 200 ms, and a gap of 1.1 s
\* (getFrame timing out over and over)
CoreDts == {4, MaxGap}

\* the frames used where the threads interleave: nothing, red300 centred,
\* red300 right of the margin
CoreFrames == {<< >>, <<Det(7, 90, 600, 680)>>, <<Det(7, 90, 701, 781)>>}

\* the frames of the longer runs: also red300 left of the margin and a blue
\* target, which the red band filters out
TrackFrames == CoreFrames \cup {<<Det(7, 90, 499, 579)>>, <<Det(0, 90, 600, 680)>>}
TrackDts == {1, 2, MaxDt, MaxGap}

Telemetry == {[pic |-> 11000, yaw |-> 15050, shoot |-> 1, idle |-> 0]}

\* -------------------------------------------------------------------- Init
Init ==
    /\ pc = [main |-> "m_select", track |-> "off", patrol |-> "off", recv |-> "off"]
    /\ g_running = TRUE
    /\ g_targetLock = FALSE
    /\ g_shooting = FALSE
    /\ g_gimbalMutex = "none"
    /\ g_currentYawAngle = CenterAngle
    /\ g_targetType = "red"
    /\ m_initialized = FALSE
    /\ m_running = FALSE
    /\ m_isOpen = FALSE
    /\ m_picAngle = InitialPic
    /\ m_yawAngle = InitialYaw
    /\ m_shootStatus = 0
    /\ m_idleAngle = 0
    /\ m_received = ZeroStatus
    /\ currentAngle = CenterAngle
    /\ direction = 1
    /\ elapsedSinceLost = 0
    /\ elapsedSinceLock = 0
    /\ elapsedSincePulse = 0
    /\ bestDet = NoDet
    /\ newAngle = 0
    /\ imageCenterX = 640
    /\ frm = [t \in Threads |-> NoFrame]
    /\ ld = [t \in Threads |-> 0]
    /\ lastWrite = NoWrite
    /\ tick = NoTick
    /\ absence = -1
    /\ run = NoRun
    /\ nTicks = 0
    /\ nPatrol = 0
    /\ m_port = ""
    /\ handles = {}
    /\ m_handle = -1
    /\ m_mutex = "none"
    /\ io = [th \in WireThreads |-> NoIo]
    /\ wire = << >>
    /\ m_statusMutex = "none"
    /\ rx = NoRx
    /\ gs = NoGs
    /\ call = NoCall

Goto(th, label) == pc' = [pc EXCEPT ![th] = label]

\* std::lock_guard<std::mutex> lock(g_gimbalMutex)
Acquire(th) == g_gimbalMutex = "none" /\ g_gimbalMutex' = th
Release(th) == g_gimbalMutex' = IF g_gimbalMutex = th THEN "none" ELSE g_gimbalMutex

\* --------------------------------------------------------------- main thread
\* selectTargetType: console choice 1 = red, 2 = blue, anything else = red
SelectTargetType(choices) ==
    /\ pc.main = "m_select"
    /\ \E choice \in choices :
          g_targetType' = IF choice = 2 THEN "blue" ELSE "red"
    /\ Goto("main", "m_init")
    /\ UNCHANGED <<g_running, g_targetLock, g_shooting, g_gimbalMutex,
                   g_currentYawAngle, m_initialized, m_running, m_isOpen,
                   m_received, gimbalVars, patrolVars, timeVars, bestDet,
                   newAngle, imageCenterX, sendVars, histVars, nTicks,
                   extVars>>

\* GimbalController::initialize, run by main before any other thread exists.
\* The sendCommand it calls returns at once: m_initialized is still false.
Initialize ==
    /\ pc.main = "m_init"
    /\ ~m_initialized
    /\ \E opened \in BOOLEAN, rateSent \in BOOLEAN :
          IF opened /\ rateSent
          THEN /\ m_isOpen' = TRUE
               /\ m_shootStatus' = 0
               /\ m_running' = TRUE
               /\ m_initialized' = TRUE
               /\ pc' = [pc EXCEPT !.main = "m_start", !.recv = "r_poll"]
          ELSE /\ pc' = [pc EXCEPT !.main = "m_failed"]
               /\ UNCHANGED <<m_isOpen, m_shootStatus, m_running, m_initialized>>
    /\ UNCHANGED <<g_running, g_targetLock, g_shooting, g_gimbalMutex,
                   g_currentYawAngle, g_targetType, m_received, m_picAngle,
                   m_yawAngle, m_idleAngle, patrolVars, timeVars, bestDet,
                   newAngle, imageCenterX, sendVars, histVars, nTicks,
                   extVars>>

\* initialize failed: main returns -1 and ~GimbalController runs close()
MainReturnFailed ==
    /\ pc.main = "m_failed"
    /\ Goto("main", "c_stop")
    /\ UNCHANGED <<g_running, g_targetLock, g_shooting, g_gimbalMutex,
                   g_currentYawAngle, ctlVars, gimbalVars, patrolVars, timeVars,
                   bestDet, newAngle, imageCenterX, sendVars, histVars, nTicks,
                   extVars>>

\* main creates detectionThreadObj and patrolThreadObj
StartThreads ==
    /\ pc.main = "m_start"
    /\ pc' = [pc EXCEPT !.main = "m_run", !.track = "t_while", !.patrol = "p_while"]
    /\ UNCHANGED <<g_running, g_targetLock, g_shooting, g_gimbalMutex,
                   g_currentYawAngle, ctlVars, gimbalVars, patrolVars, timeVars,
                   bestDet, newAngle, imageCenterX, sendVars, histVars, nTicks,
                   extVars>>

\* while (g_running.load()) sleep; then join the detection and patrol threads
MainWait ==
    /\ pc.main = "m_run"
    /\ ~g_running
    /\ Goto("main", "m_join_det")
    /\ UNCHANGED <<g_running, g_targetLock, g_shooting, g_gimbalMutex,
                   g_currentYawAngle, ctlVars, gimbalVars, patrolVars, timeVars,
                   bestDet, newAngle, imageCenterX, sendVars, histVars, nTicks,
                   extVars>>

JoinDetection ==
    /\ pc.main = "m_join_det"
    /\ pc.track = "t_done"
    /\ Goto("main", "m_join_pat")
    /\ UNCHANGED <<g_running, g_targetLock, g_shooting, g_gimbalMutex,
                   g_currentYawAngle, ctlVars, gimbalVars, patrolVars, timeVars,
                   bestDet, newAngle, imageCenterX, sendVars, histVars, nTicks,
                   extVars>>

\* after the join the GimbalController leaves scope: ~GimbalController -> close()
JoinPatrol ==
    /\ pc.main = "m_join_pat"
    /\ pc.patrol = "p_done"
    /\ Goto("main", "c_stop")
    /\ UNCHANGED <<g_running, g_targetLock, g_shooting, g_gimbalMutex,
                   g_currentYawAngle, ctlVars, gimbalVars, patrolVars, timeVars,
                   bestDet, newAngle, imageCenterX, sendVars, histVars, nTicks,
                   extVars>>

\* close(): stopReceiveThread clears m_running ...
CloseStopReceive ==
    /\ pc.main = "c_stop"
    /\ IF m_initialized
       THEN /\ m_running' = FALSE
            /\ Goto("main", "c_join")
       ELSE /\ Goto("main", "m_done")
            /\ UNCHANGED m_running
    /\ UNCHANGED <<g_running, g_targetLock, g_shooting, g_gimbalMutex,
                   g_currentYawAngle, g_targetType, m_initialized, m_isOpen,
                   m_received, gimbalVars, patrolVars, timeVars, bestDet,
                   newAngle, imageCenterX, sendVars, histVars, nTicks,
                   extVars>>

\* ... and joins the receive thread
CloseJoinReceive ==
    /\ pc.main = "c_join"
    /\ pc.recv = "r_done"
    /\ Goto("main", "c_shoot")
    /\ UNCHANGED <<g_running, g_targetLock, g_shooting, g_gimbalMutex,
                   g_currentYawAngle, ctlVars, gimbalVars, patrolVars, timeVars,
                   bestDet, newAngle, imageCenterX, sendVars, histVars, nTicks,
                   extVars>>

CloseSetShoot_NoSend ==
    /\ pc.main = "c_shoot"
    /\ m_shootStatus' = 0
    /\ Goto("main", "c_serial")
    /\ UNCHANGED <<g_running, g_targetLock, g_shooting, g_gimbalMutex,
                   g_currentYawAngle, ctlVars, m_picAngle, m_yawAngle,
                   m_idleAngle, patrolVars, timeVars, bestDet, newAngle,
                   imageCenterX, sendVars, histVars, nTicks,
                   extVars>>

\* close(): m_shootStatus = 0; sendCommand();
CloseSetShoot ==
    /\ pc.main = "c_shoot"
    /\ m_shootStatus' = 0
    /\ Goto("main", "c_send")
    /\ UNCHANGED <<g_running, g_targetLock, g_shooting, g_gimbalMutex,
                   g_currentYawAngle, ctlVars, m_picAngle, m_yawAngle,
                   m_idleAngle, patrolVars, timeVars, bestDet, newAngle,
                   imageCenterX, sendVars, histVars, nTicks,
                   extVars>>

\* close(): m_serial.close(); m_initialized = false;
CloseSerial ==
    /\ pc.main = "c_serial"
    /\ m_isOpen' = FALSE
    /\ m_initialized' = FALSE
    /\ Goto("main", "m_done")
    /\ UNCHANGED <<g_running, g_targetLock, g_shooting, g_gimbalMutex,
                   g_currentYawAngle, g_targetType, m_running, m_received,
                   gimbalVars, patrolVars, timeVars, bestDet, newAngle,
                   imageCenterX, sendVars, histVars, nTicks,
                   extVars>>

\* ------------------------------------------------------- telemetry thread
\* receiveThreadFunc: one poll that parsed a 0x07FF frame
RecvUpdate ==
    /\ pc.recv = "r_poll"
    /\ m_running
    /\ \E t \in Telemetry : m_received' = t
    /\ UNCHANGED <<pc, g_running, g_targetLock, g_shooting, g_gimbalMutex,
                   g_currentYawAngle, g_targetType, m_initialized, m_running,
                   m_isOpen, gimbalVars, patrolVars, timeVars, bestDet,
                   newAngle, imageCenterX, sendVars, histVars, nTicks,
                   extVars>>

\* receiveThreadFunc: while (m_running.load()) fails
RecvExit ==
    /\ pc.recv = "r_poll"
    /\ ~m_running
    /\ Goto("recv", "r_done")
    /\ UNCHANGED <<g_running, g_targetLock, g_shooting, g_gimbalMutex,
                   g_currentYawAngle, ctlVars, gimbalVars, patrolVars, timeVars,
                   bestDet, newAngle, imageCenterX, sendVars, histVars, nTicks,
                   extVars>>

\* ------------------------------------------------------------ sendCommand
\* where each caller continues once sendCommand has returned
AfterSend(label) ==
    CASE label = "c_send" -> "c_serial"
      [] label = "p_send" -> "p_pub"
      [] label = "t_pic_send1" -> "t_pic_send2"
      [] label = "t_pic_send2" -> "t_pic_rel"
      [] label = "t_yaw_send" -> "t_yaw_rel"
      [] label = "t_trig_send" -> "t_trig_rel"
      [] label = "t_poff_send" -> "t_poff_rel"
      [] label = "t_foff_send" -> "t_foff_rel"
      [] label = "t_lost_send" -> "t_lost_rel"
      [] label = "t_exit_send" -> "t_exit_rel"

SendLabels ==
    {"c_send", "p_send", "t_pic_send1", "t_pic_send2", "t_yaw_send", "t_trig_send",
     "t_poff_send", "t_foff_send", "t_lost_send", "t_exit_send"}

\* the k-th argument of buildUSBCANFrame: one atomic load, cast to uint16_t
LoadField(f, k) ==
    CASE k = 0 -> [f EXCEPT !.pic = U16(m_picAngle)]
      [] k = 1 -> [f EXCEPT !.yaw = U16(m_yawAngle)]
      [] k = 2 -> [f EXCEPT !.shoot = U16(m_shootStatus)]
      [] k = 3 -> [f EXCEPT !.idle = U16(m_idleAngle)]

\* sendCommand, up to the frame: the m_initialized test, then the four loads
SendCommandLoad(th) ==
    /\ pc[th] \in SendLabels
    /\ ld[th] < 4
    /\ IF ld[th] = 0 /\ ~m_initialized
       THEN /\ Goto(th, AfterSend(pc[th]))
            /\ UNCHANGED sendVars
       ELSE /\ frm' = [frm EXCEPT ![th] = LoadField(frm[th], ld[th])]
            /\ ld' = [ld EXCEPT ![th] = ld[th] + 1]
            /\ UNCHANGED pc
    /\ UNCHANGED <<g_running, g_targetLock, g_shooting, g_gimbalMutex,
                   g_currentYawAngle, ctlVars, gimbalVars, patrolVars, timeVars,
                   bestDet, newAngle, imageCenterX, histVars, nTicks,
                   extVars>>

\* sendCommand: m_serial.send(frame)
SendCommandWrite(th) ==
    /\ pc[th] \in SendLabels
    /\ ld[th] = 4
    /\ IF m_isOpen
       THEN /\ lastWrite' = [by |-> th, shoot |-> frm[th].shoot]
            /\ tick' = IF th = "track" THEN [tick EXCEPT !.sent = frm[th].shoot]
                       ELSE tick
       ELSE UNCHANGED <<lastWrite, tick>>
    /\ frm' = [frm EXCEPT ![th] = NoFrame]
    /\ ld' = [ld EXCEPT ![th] = 0]
    /\ Goto(th, AfterSend(pc[th]))
    /\ UNCHANGED <<g_running, g_targetLock, g_shooting, g_gimbalMutex,
                   g_currentYawAngle, ctlVars, gimbalVars, patrolVars, timeVars,
                   bestDet, newAngle, imageCenterX, absence, run, nTicks,
                   extVars>>

\* ------------------------------------------------------------ patrol thread
\* while (g_running.load())
P_While_IgnoreFlag(maxSteps) ==
    /\ pc.patrol = "p_while"
    /\ nPatrol < maxSteps
    /\ Goto("patrol", "p_if")
    /\ UNCHANGED <<g_running, g_targetLock, g_shooting, g_gimbalMutex,
                   g_currentYawAngle, ctlVars, gimbalVars, patrolVars, timeVars,
                   bestDet, newAngle, imageCenterX, sendVars, histVars, nTicks,
                   extVars>>

P_While(maxSteps) ==
    /\ pc.patrol = "p_while"
    /\ IF g_running
       THEN nPatrol < maxSteps /\ Goto("patrol", "p_if")
       ELSE Goto("patrol", "p_done")
    /\ UNCHANGED <<g_running, g_targetLock, g_shooting, g_gimbalMutex,
                   g_currentYawAngle, ctlVars, gimbalVars, patrolVars, timeVars,
                   bestDet, newAngle, imageCenterX, sendVars, histVars, nTicks,
                   extVars>>

\* if (g_patrolEnabled.load() && !g_targetLock.load()); g_patrolEnabled is
\* never written.  Otherwise sleep and loop.
P_If ==
    /\ pc.patrol = "p_if"
    /\ IF ~g_targetLock
       THEN Goto("patrol", "p_step")
       ELSE Goto("patrol", "p_while")
    /\ UNCHANGED <<g_running, g_targetLock, g_shooting, g_gimbalMutex,
                   g_currentYawAngle, ctlVars, gimbalVars, patrolVars, timeVars,
                   bestDet, newAngle, imageCenterX, sendVars, histVars, nTicks,
                   extVars>>

\* the step near a limit without its two floors
CurrentSpeed_NoFloor(angle, dir) ==
    LET distanceToLeft == LeftLimit - angle
        distanceToRight == angle - RightLimit
    IN  IF dir > 0 /\ distanceToLeft < AccelerationZone
        THEN (PatrolSpeed * distanceToLeft) \div AccelerationZone
        ELSE IF dir < 0 /\ distanceToRight < AccelerationZone
        THEN (PatrolSpeed * distanceToRight) \div AccelerationZone
        ELSE PatrolSpeed

\* the step near a limit: max(minSpeed, (int)(patrolSpeed * max(0.1, d / zone)));
\* for 0 <= d < 500 the double arithmetic gives max(30, d div 10) exactly
CurrentSpeed(angle, dir) ==
    LET distanceToLeft == LeftLimit - angle
        distanceToRight == angle - RightLimit
    IN  IF dir > 0 /\ distanceToLeft < AccelerationZone
        THEN Max(MinSpeed, (PatrolSpeed * Max(AccelerationZone \div 10, distanceToLeft))
                             \div AccelerationZone)
        ELSE IF dir < 0 /\ distanceToRight < AccelerationZone
        THEN Max(MinSpeed, (PatrolSpeed * Max(AccelerationZone \div 10, distanceToRight))
                             \div AccelerationZone)
        ELSE PatrolSpeed

\* the step without the cut at the limits
NextAngle_NoCut(angle, dir) ==
    angle + CurrentSpeed(angle, dir) * dir

NextAngle(angle, dir) ==
    LET a == angle + CurrentSpeed(angle, dir) * dir
    IN  IF a >= LeftLimit THEN LeftLimit
        ELSE IF a <= RightLimit THEN RightLimit ELSE a

NextDirection(angle, dir) ==
    LET a == angle + CurrentSpeed(angle, dir) * dir
    IN  IF a >= LeftLimit THEN -1
        ELSE IF a <= RightLimit THEN 1 ELSE dir

P_Step_NoLock ==
    /\ pc.patrol = "p_step"
    /\ currentAngle' = NextAngle(currentAngle, direction)
    /\ direction' = NextDirection(currentAngle, direction)
    /\ m_yawAngle' = clampAngle(currentAngle')
    /\ nPatrol' = nPatrol + 1
    /\ Goto("patrol", "p_send")
    /\ UNCHANGED <<g_running, g_targetLock, g_shooting, g_gimbalMutex,
                   g_currentYawAngle, ctlVars, m_picAngle, m_shootStatus,
                   m_idleAngle, timeVars, bestDet, newAngle, imageCenterX,
                   sendVars, histVars, nTicks,
                   extVars>>

\* lock_guard; the step; setYawAngle stores the clamped angle (and then sends)
P_Step ==
    /\ pc.patrol = "p_step"
    /\ Acquire("patrol")
    /\ currentAngle' = NextAngle(currentAngle, direction)
    /\ direction' = NextDirection(currentAngle, direction)
    /\ m_yawAngle' = clampAngle(currentAngle')
    /\ nPatrol' = nPatrol + 1
    /\ Goto("patrol", "p_send")
    /\ UNCHANGED <<g_running, g_targetLock, g_shooting, g_currentYawAngle,
                   ctlVars, m_picAngle, m_shootStatus, m_idleAngle, timeVars,
                   bestDet, newAngle, imageCenterX, sendVars, histVars, nTicks,
                   extVars>>

\* g_currentYawAngle = currentAngle; the lock_guard leaves scope; sleep
P_Publish ==
    /\ pc.patrol = "p_pub"
    /\ g_currentYawAngle' = currentAngle
    /\ Release("patrol")
    /\ Goto("patrol", "p_while")
    /\ UNCHANGED <<g_running, g_targetLock, g_shooting, ctlVars, gimbalVars,
                   patrolVars, timeVars, bestDet, newAngle, imageCenterX,
                   sendVars, histVars, nTicks,
                   extVars>>

\* --------------------------------------------------------- detection thread
\* while (g_running.load()) holds (only the 'q' branch of this thread clears the
\* flag before the threads are joined, and it leaves the loop by break).
\* One frame arrives dt after the previous time sample: getFrame, detect, the
\* colour filter, currentTime = now(), and the choice of the best detection.
T_Frame(dt, cols, allDetections, maxTicks) ==
    LET targetDetections == TargetDetections(allDetections)
        found == targetDetections # << >>
        pulse == Age(elapsedSincePulse, dt, ShootPulseOn)
    IN  /\ pc.track = "t_while"
        /\ g_running
        /\ nTicks < maxTicks
        /\ nTicks' = nTicks + 1
        /\ imageCenterX' = CDiv(cols, 2)
        /\ elapsedSinceLost' = Age(elapsedSinceLost, dt, TargetLostTimeout + 1)
        /\ elapsedSinceLock' = Age(elapsedSinceLock, dt, LockCap)
        /\ elapsedSincePulse' = pulse
        /\ bestDet' = IF found THEN MaxElement(targetDetections) ELSE NoDet
        /\ Goto("track", IF found THEN "t_lock" ELSE "t_lost_stop")
        /\ tick' = [locked |-> g_targetLock, shoot |-> m_shootStatus,
                    pulse |-> pulse, prevLock |-> elapsedSinceLock, sent |-> -1,
                    frame |-> allDetections]
        /\ absence' = IF found THEN -1
                      ELSE IF absence = -1 THEN 0
                      ELSE Age(absence, dt, TargetLostTimeout + 1)
        /\ run' = [run EXCEPT !.centered =
                       run.centered /\ found
                       /\ Abs(TargetCenterX(bestDet') - imageCenterX') <= CenterMargin]
        /\ UNCHANGED <<g_running, g_targetLock, g_shooting, g_gimbalMutex,
                       g_currentYawAngle, ctlVars, gimbalVars, patrolVars,
                       newAngle, sendVars, lastWrite,
                   extVars>>

\* where a tick with a target goes after the lock block
AfterLock ==
    IF getClassName(bestDet.classId) \in MappedNames THEN "t_pic"
    ELSE IF ~centerStable THEN "t_yaw_read" ELSE "t_fire"

\* the lock block taking the lock only for a centred target
T_Lock_OnlyCentered ==
    /\ pc.track = "t_lock"
    /\ g_gimbalMutex = "none"
    /\ IF ~g_targetLock
       THEN /\ elapsedSinceLock' = 0
            /\ g_shooting' = FALSE
            /\ run' = [centered |-> centerStable, fired |-> FALSE, edges |-> 0]
       ELSE UNCHANGED <<elapsedSinceLock, g_shooting, run>>
    /\ g_targetLock' = (g_targetLock \/ centerStable)
    /\ Goto("track", AfterLock)
    /\ UNCHANGED <<g_running, g_gimbalMutex, g_currentYawAngle, ctlVars,
                   gimbalVars, patrolVars, elapsedSinceLost, elapsedSincePulse,
                   bestDet, newAngle, imageCenterX, sendVars, lastWrite, tick,
                   absence, nTicks,
                   extVars>>

\* { lock_guard; if (!g_targetLock) { lockStartTime = currentTime;
\*   g_shooting = false; } g_targetLock = true; }
T_Lock ==
    /\ pc.track = "t_lock"
    /\ g_gimbalMutex = "none"
    /\ IF ~g_targetLock
       THEN /\ elapsedSinceLock' = 0
            /\ g_shooting' = FALSE
            /\ run' = [centered |-> centerStable, fired |-> FALSE, edges |-> 0]
       ELSE UNCHANGED <<elapsedSinceLock, g_shooting, run>>
    /\ g_targetLock' = TRUE
    /\ Goto("track", AfterLock)
    /\ UNCHANGED <<g_running, g_gimbalMutex, g_currentYawAngle, ctlVars,
                   gimbalVars, patrolVars, elapsedSinceLost, elapsedSincePulse,
                   bestDet, newAngle, imageCenterX, sendVars, lastWrite, tick,
                   absence, nTicks,
                   extVars>>

\* lock_guard; gimbal->setPicAngle(it->second) stores the clamped angle and
\* sends; gimbal->sendCommand() sends once more
\* the pitch taken from the telemetry snapshot instead of the mapping
T_Pic_FromTelemetry ==
    /\ pc.track = "t_pic"
    /\ Acquire("track")
    /\ m_picAngle' = clampAngle(m_received.pic)
    /\ Goto("track", "t_pic_send1")
    /\ UNCHANGED <<g_running, g_targetLock, g_shooting, g_currentYawAngle,
                   ctlVars, m_yawAngle, m_shootStatus, m_idleAngle, patrolVars,
                   timeVars, bestDet, newAngle, imageCenterX, sendVars,
                   histVars, nTicks,
                   extVars>>

T_Pic ==
    /\ pc.track = "t_pic"
    /\ Acquire("track")
    /\ m_picAngle' = clampAngle(ELEVATION_MAPPING(getClassName(bestDet.classId)))
    /\ Goto("track", "t_pic_send1")
    /\ UNCHANGED <<g_running, g_targetLock, g_shooting, g_currentYawAngle,
                   ctlVars, m_yawAngle, m_shootStatus, m_idleAngle, patrolVars,
                   timeVars, bestDet, newAngle, imageCenterX, sendVars,
                   histVars, nTicks,
                   extVars>>

T_PicRelease ==
    /\ pc.track = "t_pic_rel"
    /\ Release("track")
    /\ Goto("track", IF ~centerStable THEN "t_yaw_read" ELSE "t_fire")
    /\ UNCHANGED <<g_running, g_targetLock, g_shooting, g_currentYawAngle,
                   ctlVars, gimbalVars, patrolVars, timeVars, bestDet, newAngle,
                   imageCenterX, sendVars, histVars, nTicks,
                   extVars>>

\* newAngle = clamp(g_currentYawAngle.load() -/+ stepSize), computed unlocked
T_YawRead ==
    /\ pc.track = "t_yaw_read"
    /\ newAngle' = Max(0, Min(MaxAngle,
                       g_currentYawAngle + (IF xDeviation > 0 THEN -StepSize ELSE StepSize)))
    /\ Goto("track", "t_yaw")
    /\ UNCHANGED <<g_running, g_targetLock, g_shooting, g_gimbalMutex,
                   g_currentYawAngle, ctlVars, gimbalVars, patrolVars, timeVars,
                   bestDet, imageCenterX, sendVars, histVars, nTicks,
                   extVars>>

\* { lock_guard; gimbal->setYawAngle(newAngle); ...
T_Yaw ==
    /\ pc.track = "t_yaw"
    /\ Acquire("track")
    /\ m_yawAngle' = clampAngle(newAngle)
    /\ Goto("track", "t_yaw_send")
    /\ UNCHANGED <<g_running, g_targetLock, g_shooting, g_currentYawAngle,
                   ctlVars, m_picAngle, m_shootStatus, m_idleAngle, patrolVars,
                   timeVars, bestDet, newAngle, imageCenterX, sendVars,
                   histVars, nTicks,
                   extVars>>

\* ... g_currentYawAngle = newAngle; }
T_YawRelease ==
    /\ pc.track = "t_yaw_rel"
    /\ g_currentYawAngle' = newAngle
    /\ newAngle' = 0
    /\ Release("track")
    /\ Goto("track", "t_fire")
    /\ UNCHANGED <<g_running, g_targetLock, g_shooting, ctlVars, gimbalVars,
                   patrolVars, timeVars, bestDet, imageCenterX, sendVars,
                   histVars, nTicks,
                   extVars>>

FireDecision_KeepWhenOff(stable, sinceLock, sincePulse, shooting) ==
    IF stable /\ sinceLock >= ShootingDelay
    THEN IF ~shooting /\ sincePulse >= ShootPulseOff THEN "trigger"
         ELSE IF shooting /\ sincePulse >= ShootPulseOn THEN "pulse_off"
         ELSE "hold"
    ELSE "hold"

FireDecision_SwappedPulse(stable, sinceLock, sincePulse, shooting) ==
    IF stable /\ sinceLock >= ShootingDelay
    THEN IF ~shooting /\ sincePulse >= ShootPulseOn THEN "trigger"
         ELSE IF shooting /\ sincePulse >= ShootPulseOff THEN "pulse_off"
         ELSE "hold"
    ELSE "force_off"

FireDecision_Delayed(stable, sinceLock, sincePulse, shooting) ==
    IF stable /\ sinceLock >= ShootPulseOff
    THEN IF ~shooting /\ sincePulse >= ShootPulseOff THEN "trigger"
         ELSE IF shooting /\ sincePulse >= ShootPulseOn THEN "pulse_off"
         ELSE "hold"
    ELSE "force_off"

FireDecision_NoOffDelay(stable, sinceLock, sincePulse, shooting) ==
    IF stable /\ sinceLock >= ShootingDelay
    THEN IF ~shooting THEN "trigger"
         ELSE IF shooting /\ sincePulse >= ShootPulseOn THEN "pulse_off"
         ELSE "hold"
    ELSE "force_off"

\* the shooting control without the end of the pulse
FireDecision_NoPulseOff(stable, sinceLock, sincePulse, shooting) ==
    IF stable /\ sinceLock >= ShootingDelay
    THEN IF ~shooting /\ sincePulse >= ShootPulseOff THEN "trigger"
         ELSE "hold"
    ELSE "force_off"

\* the shooting control of main.cpp 444-481: which branch a tick takes
FireDecision(stable, sinceLock, sincePulse, shooting) ==
    IF stable /\ sinceLock >= ShootingDelay
    THEN IF ~shooting /\ sincePulse >= ShootPulseOff THEN "trigger"
         ELSE IF shooting /\ sincePulse >= ShootPulseOn THEN "pulse_off"
         ELSE "hold"
    ELSE "force_off"

Decision == FireDecision(centerStable, elapsedSinceLock, elapsedSincePulse, g_shooting)

\* lock_guard; gimbal->triggerShoot() stores 1 and sends ...
T_Trigger ==
    /\ pc.track = "t_fire"
    /\ Decision = "trigger"
    /\ Acquire("track")
    /\ m_shootStatus' = 1
    /\ Goto("track", "t_trig_send")
    /\ UNCHANGED <<g_running, g_targetLock, g_shooting, g_currentYawAngle,
                   ctlVars, m_picAngle, m_yawAngle, m_idleAngle, patrolVars,
                   timeVars, bestDet, newAngle, imageCenterX, sendVars,
                   histVars, nTicks,
                   extVars>>

\* ... g_shooting = true; lastPulseSwitch = currentTime;
T_TriggerRelease ==
    /\ pc.track = "t_trig_rel"
    /\ g_shooting' = TRUE
    /\ elapsedSincePulse' = 0
    /\ run' = [run EXCEPT !.edges = Min(run.edges + 1, 4),
                          !.fired = run.fired \/ ~tick.locked]
    /\ Release("track")
    /\ Goto("track", "t_key")
    /\ UNCHANGED <<g_running, g_targetLock, g_currentYawAngle, ctlVars,
                   gimbalVars, patrolVars, elapsedSinceLost, elapsedSinceLock,
                   bestDet, newAngle, imageCenterX, sendVars, lastWrite, tick,
                   absence, nTicks,
                   extVars>>

\* lock_guard; gimbal->stopShoot() stores 0 and sends ...
T_PulseOff ==
    /\ pc.track = "t_fire"
    /\ Decision = "pulse_off"
    /\ Acquire("track")
    /\ m_shootStatus' = 0
    /\ Goto("track", "t_poff_send")
    /\ UNCHANGED <<g_running, g_targetLock, g_shooting, g_currentYawAngle,
                   ctlVars, m_picAngle, m_yawAngle, m_idleAngle, patrolVars,
                   timeVars, bestDet, newAngle, imageCenterX, sendVars,
                   histVars, nTicks,
                   extVars>>

\* ... g_shooting = false; lastPulseSwitch = currentTime;
T_PulseOffRelease ==
    /\ pc.track = "t_poff_rel"
    /\ g_shooting' = FALSE
    /\ elapsedSincePulse' = 0
    /\ run' = [run EXCEPT !.edges = Min(run.edges + 1, 4)]
    /\ Release("track")
    /\ Goto("track", "t_key")
    /\ UNCHANGED <<g_running, g_targetLock, g_currentYawAngle, ctlVars,
                   gimbalVars, patrolVars, elapsedSinceLost, elapsedSinceLock,
                   bestDet, newAngle, imageCenterX, sendVars, lastWrite, tick,
                   absence, nTicks,
                   extVars>>

\* centred, but neither threshold reached: nothing is sent
T_Hold ==
    /\ pc.track = "t_fire"
    /\ Decision = "hold"
    /\ Goto("track", "t_key")
    /\ UNCHANGED <<g_running, g_targetLock, g_shooting, g_gimbalMutex,
                   g_currentYawAngle, ctlVars, gimbalVars, patrolVars, timeVars,
                   bestDet, newAngle, imageCenterX, sendVars, histVars, nTicks,
                   extVars>>

\* not centred: lock_guard; gimbal->stopShoot(); ...
T_ForceOff ==
    /\ pc.track = "t_fire"
    /\ Decision = "force_off"
    /\ Acquire("track")
    /\ m_shootStatus' = 0
    /\ Goto("track", "t_foff_send")
    /\ UNCHANGED <<g_running, g_targetLock, g_shooting, g_currentYawAngle,
                   ctlVars, m_picAngle, m_yawAngle, m_idleAngle, patrolVars,
                   timeVars, bestDet, newAngle, imageCenterX, sendVars,
                   histVars, nTicks,
                   extVars>>

\* ... g_shooting = false;
T_ForceOffRelease ==
    /\ pc.track = "t_foff_rel"
    /\ g_shooting' = FALSE
    /\ run' = [run EXCEPT !.edges = IF g_shooting THEN Min(run.edges + 1, 4)
                                    ELSE run.edges]
    /\ Release("track")
    /\ Goto("track", "t_key")
    /\ UNCHANGED <<g_running, g_targetLock, g_currentYawAngle, ctlVars,
                   gimbalVars, patrolVars, timeVars, bestDet, newAngle,
                   imageCenterX, sendVars, lastWrite, tick, absence, nTicks,
                   extVars>>

\* no target in the frame: { lock_guard; gimbal->stopShoot(); ...
T_LostStop ==
    /\ pc.track = "t_lost_stop"
    /\ Acquire("track")
    /\ m_shootStatus' = 0
    /\ Goto("track", "t_lost_send")
    /\ UNCHANGED <<g_running, g_targetLock, g_shooting, g_currentYawAngle,
                   ctlVars, m_picAngle, m_yawAngle, m_idleAngle, patrolVars,
                   timeVars, bestDet, newAngle, imageCenterX, sendVars,
                   histVars, nTicks,
                   extVars>>

\* ... g_shooting = false; }
T_LostStopRelease ==
    /\ pc.track = "t_lost_rel"
    /\ g_shooting' = FALSE
    /\ run' = [run EXCEPT !.edges = IF g_shooting THEN Min(run.edges + 1, 4)
                                    ELSE run.edges]
    /\ Release("track")
    /\ Goto("track", "t_lost")
    /\ UNCHANGED <<g_running, g_targetLock, g_currentYawAngle, ctlVars,
                   gimbalVars, patrolVars, timeVars, bestDet, newAngle,
                   imageCenterX, sendVars, lastWrite, tick, absence, nTicks,
                   extVars>>

LostOutcome_NoRelease(locked, sinceLost) ==
    IF locked
    THEN IF sinceLost = 0 THEN "restart" ELSE "confirm"
    ELSE "restart"

\* main.cpp 509-527: what a tick without target does to the lock and to
\* targetLostTime
LostOutcome(locked, sinceLost) ==
    IF locked
    THEN IF sinceLost = 0 THEN "restart"
         ELSE IF sinceLost > TargetLostTimeout THEN "release"
         ELSE "confirm"
    ELSE "restart"

T_Lost ==
    /\ pc.track = "t_lost"
    /\ LET outcome == LostOutcome(g_targetLock, elapsedSinceLost)
       IN  /\ elapsedSinceLost' = IF outcome = "restart" THEN 0 ELSE elapsedSinceLost
           /\ g_targetLock' = IF outcome = "release" THEN FALSE ELSE g_targetLock
           /\ elapsedSinceLock' = IF outcome = "release" THEN 0 ELSE elapsedSinceLock
    /\ Goto("track", "t_key")
    /\ UNCHANGED <<g_running, g_shooting, g_gimbalMutex, g_currentYawAngle,
                   ctlVars, gimbalVars, patrolVars, elapsedSincePulse, bestDet,
                   newAngle, imageCenterX, sendVars, histVars, nTicks,
                   extVars>>

\* imshow; waitKey(1): 'q' clears g_running and breaks out of the loop
T_Key ==
    /\ pc.track = "t_key"
    /\ \E key \in {"q", "other"} :
          IF key = "q"
          THEN g_running' = FALSE /\ Goto("track", "t_exit")
          ELSE UNCHANGED g_running /\ Goto("track", "t_while")
    /\ bestDet' = NoDet
    /\ UNCHANGED <<g_targetLock, g_shooting, g_gimbalMutex, g_currentYawAngle,
                   ctlVars, gimbalVars, patrolVars, timeVars, newAngle,
                   imageCenterX, sendVars, histVars, nTicks,
                   extVars>>

\* after the loop: { lock_guard; gimbal->stopShoot(); ...
T_Cleanup ==
    /\ pc.track = "t_exit"
    /\ Acquire("track")
    /\ m_shootStatus' = 0
    /\ Goto("track", "t_exit_send")
    /\ UNCHANGED <<g_running, g_targetLock, g_shooting, g_currentYawAngle,
                   ctlVars, m_picAngle, m_yawAngle, m_idleAngle, patrolVars,
                   timeVars, bestDet, newAngle, imageCenterX, sendVars,
                   histVars, nTicks,
                   extVars>>

\* ... g_shooting = false; } and the thread ends
T_CleanupRelease ==
    /\ pc.track = "t_exit_rel"
    /\ g_shooting' = FALSE
    /\ Release("track")
    /\ Goto("track", "t_done")
    /\ UNCHANGED <<g_running, g_targetLock, g_currentYawAngle, ctlVars,
                   gimbalVars, patrolVars, timeVars, bestDet, newAngle,
                   imageCenterX, sendVars, histVars, nTicks,
                   extVars>>

\* ------------------------------------------- GimbalController, call by call
\* One caller drives the actuator: each action is one whole call, with what
\* the operating system answers (which ports open, whether a write is
\* complete) chosen freely.
progVars == <<g_running, g_targetLock, g_shooting, g_gimbalMutex,
              g_currentYawAngle, g_targetType, m_received, patrolVars,
              timeVars, bestDet, newAngle, imageCenterX, sendVars, histVars,
              nTicks, statusVars>>

\* arguments of the setters
AngleArgs == {-1, 0, 14000, 30001}
ShootArgs == {0, 1, 2}
CallerPorts == {"/dev/ttyACM0", "/dev/ttyUSB1"}

\* initialize: std::vector<std::string> ports
CandidatePorts(serialPort) ==
    <<serialPort, "/dev/ttyUSB0", "/dev/ttyACM1", "/dev/ttyUSB1", "COM3", "COM4">>

AllPorts == {"/dev/ttyACM0", "/dev/ttyUSB0", "/dev/ttyACM1", "/dev/ttyUSB1",
             "COM3", "COM4"}

\* the descriptor ::open returns
Fd == 3

\* which ports the operating system lets the process open
OpenableSets == {{}, {"/dev/ttyUSB1"}, {"/dev/ttyACM1", "COM4"}, {"COM4"},
                 AllPorts}

\* the for loop over ports: index of the first port that opens, 0 if none
RECURSIVE FirstOpenFrom(_, _, _)
FirstOpenFrom(ports, openable, i) ==
    IF i > Len(ports) THEN 0
    ELSE IF ports[i] \in openable THEN i
    ELSE FirstOpenFrom(ports, openable, i + 1)

\* the loop without its break: the last port that opens wins
FirstOpen_Last(ports, openable) ==
    IF \E i \in 1..Len(ports) : ports[i] \in openable
    THEN CHOOSE i \in 1..Len(ports) :
            /\ ports[i] \in openable
            /\ \A j \in (i + 1)..Len(ports) : ports[j] \notin openable
    ELSE 0

FirstOpen(ports, openable) == FirstOpenFrom(ports, openable, 1)

\* the ports SerialComm::open was called with, in order
PortsTried(ports, openable) ==
    IF FirstOpen(ports, openable) = 0 THEN ports
    ELSE SubSeq(ports, 1, FirstOpen(ports, openable))

\* what the transport is handed
RateFrame == [kind |-> "rate", pic |-> 0, yaw |-> 0, shoot |-> 0, idle |-> 0]
ShortWrite == [kind |-> "short", pic |-> 0, yaw |-> 0, shoot |-> 0, idle |-> 0]
CommandFrame(pic, yaw, shoot, idle) ==
    [kind |-> "cmd", pic |-> U16(pic), yaw |-> U16(yaw), shoot |-> shoot,
     idle |-> U16(idle)]

\* SerialComm::send reporting a short write as sent
SerialSend_IgnoreShort(isOpen, writeOk, frame) ==
    IF ~isOpen THEN [ret |-> "false", wrote |-> << >>]
    ELSE IF ~writeOk THEN [ret |-> "true", wrote |-> <<ShortWrite>>]
    ELSE [ret |-> "true", wrote |-> <<frame>>]

\* SerialComm::send: false on a closed link, false after a short write
SerialSend(isOpen, writeOk, frame) ==
    IF ~isOpen THEN [ret |-> "false", wrote |-> << >>]
    ELSE IF ~writeOk THEN [ret |-> "false", wrote |-> <<ShortWrite>>]
    ELSE [ret |-> "true", wrote |-> <<frame>>]

\* GimbalController::sendCommand on the given state
sendCommand(initialized, isOpen, writeOk, pic, yaw, shoot, idle) ==
    IF ~initialized THEN [ret |-> "false", wrote |-> << >>]
    ELSE SerialSend(isOpen, writeOk, CommandFrame(pic, yaw, shoot, idle))

Commanded == [pic |-> m_picAngle, yaw |-> m_yawAngle, shoot |-> m_shootStatus,
              idle |-> m_idleAngle]

Setters == {"setPicAngle", "setYawAngle", "setShootStatus", "setIdleAngle",
            "triggerShoot", "stopShoot"}

CallRecord(op, arg, ret, wrote, writeOk) ==
    [op |-> op, arg |-> arg, ret |-> ret, wrote |-> wrote, tried |-> << >>,
     openable |-> {}, writeOk |-> writeOk, kept |-> TRUE,
     wasInit |-> m_initialized, port |-> "",
     \* stale: a value stored by a setter has not been transmitted yet
     stale |-> IF ret = "true" THEN FALSE
               ELSE IF op \in Setters THEN TRUE ELSE call.stale,
     wasStale |-> call.stale,
     wasOpen |-> m_isOpen, os |-> << >>, count |-> 0, released |-> call.released]

\* initialize with the port left open after the rate frame failed
RateConfigFailed_NoClose(port) ==
    /\ m_port' = port
    /\ m_isOpen' = TRUE
    /\ handles' = handles \cup {port}
    /\ m_handle' = Fd

\* initialize: if (!configureUSBCANRate()) { m_serial.close(); return false; }
RateConfigFailed(port) ==
    /\ m_port' = port
    /\ m_isOpen' = FALSE
    /\ handles' = handles \ {port}
    /\ m_handle' = -1

\* GimbalController::initialize(serialPort, baudRate)
GC_initialize(serialPort, openable, rateOk) ==
    LET ports == CandidatePorts(serialPort)
        k == FirstOpen(ports, openable)
        rate == SerialSend(TRUE, rateOk, RateFrame)
        \* m_shootStatus = 0; sendCommand(); with m_initialized as it is then
        cmd == sendCommand(m_initialized, TRUE, TRUE, m_picAngle, m_yawAngle, 0,
                           m_idleAngle)
        rec == [CallRecord("initialize", 0, "true", << >>, rateOk)
                    EXCEPT !.openable = openable, !.port = serialPort]
    IN  IF m_initialized
        THEN /\ call' = rec
             /\ UNCHANGED <<pc, m_initialized, m_running, m_isOpen, gimbalVars,
                            m_port, handles, m_handle>>
        ELSE IF k = 0
        THEN /\ call' = [rec EXCEPT !.ret = "false", !.tried = ports]
             /\ m_port' = ports[Len(ports)]
             /\ UNCHANGED <<pc, m_initialized, m_running, m_isOpen, gimbalVars,
                            handles, m_handle>>
        ELSE IF rate.ret = "false"
        THEN /\ call' = [rec EXCEPT !.ret = "false", !.wrote = rate.wrote,
                                    !.tried = PortsTried(ports, openable)]
             /\ RateConfigFailed(ports[k])
             /\ UNCHANGED <<pc, m_initialized, m_running, gimbalVars>>
        ELSE /\ call' = [rec EXCEPT !.wrote = rate.wrote \o cmd.wrote,
                                    !.tried = PortsTried(ports, openable)]
             /\ m_port' = ports[k]
             /\ m_isOpen' = TRUE
             /\ handles' = handles \cup {ports[k]}
             /\ m_handle' = Fd
             /\ m_shootStatus' = 0
             /\ m_running' = TRUE
             /\ pc' = [pc EXCEPT !.recv = "r_poll"]
             /\ m_initialized' = TRUE
             /\ UNCHANGED <<m_picAngle, m_yawAngle, m_idleAngle>>

\* close() without the test of m_initialized
GC_close_Unguarded(writeOk) ==
    LET cmd == sendCommand(m_initialized, m_isOpen, writeOk, m_picAngle,
                           m_yawAngle, 0, m_idleAngle)
    IN  /\ m_running' = FALSE
        /\ pc' = [pc EXCEPT !.recv = "r_done"]
        /\ m_shootStatus' = 0
        /\ call' = CallRecord("close", 0, "void", cmd.wrote, writeOk)
        /\ m_isOpen' = FALSE
        /\ handles' = IF m_isOpen THEN handles \ {m_port} ELSE handles
        /\ m_handle' = IF m_isOpen THEN -1 ELSE m_handle
        /\ m_initialized' = FALSE
        /\ UNCHANGED <<m_picAngle, m_yawAngle, m_idleAngle, m_port>>

\* GimbalController::close()
GC_close(writeOk) ==
    IF ~m_initialized
    THEN /\ call' = CallRecord("close", 0, "void", << >>, writeOk)
         /\ UNCHANGED <<pc, m_initialized, m_running, m_isOpen, gimbalVars,
                        m_port, handles, m_handle>>
    ELSE LET cmd == sendCommand(m_initialized, m_isOpen, writeOk, m_picAngle,
                                m_yawAngle, 0, m_idleAngle)
         IN  /\ m_running' = FALSE
             /\ pc' = [pc EXCEPT !.recv = "r_done"]
             /\ m_shootStatus' = 0
             /\ call' = CallRecord("close", 0, "void", cmd.wrote, writeOk)
             /\ m_isOpen' = FALSE
             /\ handles' = IF m_isOpen THEN handles \ {m_port} ELSE handles
             /\ m_handle' = IF m_isOpen THEN -1 ELSE m_handle
             /\ m_initialized' = FALSE
             /\ UNCHANGED <<m_picAngle, m_yawAngle, m_idleAngle, m_port>>

\* a setter: the store, then sendCommand on the new state
SetAndSend(op, arg, pic, yaw, shoot, idle, writeOk, void) ==
    LET cmd == sendCommand(m_initialized, m_isOpen, writeOk, pic, yaw, shoot, idle)
    IN  /\ m_picAngle' = pic
        /\ m_yawAngle' = yaw
        /\ m_shootStatus' = shoot
        /\ m_idleAngle' = idle
        /\ call' = [CallRecord(op, arg, cmd.ret, cmd.wrote, writeOk)
                        EXCEPT !.ret = IF void THEN "void" ELSE cmd.ret,
                               \* kept: the call left the four fields as they were
                               !.kept = (Commanded = [pic |-> pic, yaw |-> yaw,
                                                      shoot |-> shoot, idle |-> idle])]
        /\ UNCHANGED <<pc, m_initialized, m_running, m_isOpen, m_port, handles,
                       m_handle>>

GC_setPicAngle(angle, writeOk) ==
    SetAndSend("setPicAngle", angle, clampAngle(angle), m_yawAngle,
               m_shootStatus, m_idleAngle, writeOk, FALSE)

GC_setYawAngle(angle, writeOk) ==
    SetAndSend("setYawAngle", angle, m_picAngle, clampAngle(angle),
               m_shootStatus, m_idleAngle, writeOk, FALSE)

GC_setShootStatus(status, writeOk) ==
    SetAndSend("setShootStatus", status, m_picAngle, m_yawAngle, status,
               m_idleAngle, writeOk, FALSE)

GC_setIdleAngle(angle, writeOk) ==
    SetAndSend("setIdleAngle", angle, m_picAngle, m_yawAngle, m_shootStatus,
               clampAngle(angle), writeOk, FALSE)

GC_triggerShoot(writeOk) ==
    SetAndSend("triggerShoot", 1, m_picAngle, m_yawAngle, 1, m_idleAngle,
               writeOk, TRUE)

GC_stopShoot(writeOk) ==
    SetAndSend("stopShoot", 0, m_picAngle, m_yawAngle, 0, m_idleAngle,
               writeOk, TRUE)

GC_sendCommand(writeOk) ==
    SetAndSend("sendCommand", 0, m_picAngle, m_yawAngle, m_shootStatus,
               m_idleAngle, writeOk, FALSE)

getCurrentPicAngle == m_picAngle
getCurrentYawAngle == m_yawAngle

\* ------------------------------------------------- SerialComm, call by call
\* One caller drives the transport: each action is one whole call of
\* SerialComm, and what the operating system answers is chosen freely.
\* call.os lists the system calls the call made on a descriptor.
gcVars == <<pc, m_initialized, m_running, gimbalVars>>

OpenResults == {"ok", "open_fails", "attr_fails"}
ReadResults == {-1, 0, 15}
PendingBytes == {0, 14, 15}

\* ::close calls made on the descriptor since the last ::open that succeeded
RECURSIVE Released(_, _)
Released(n, os) ==
    IF os = << >> THEN n
    ELSE Released(IF Head(os) = "open" THEN 0
                  ELSE IF Head(os) = "close" THEN (IF n < 2 THEN n + 1 ELSE 2)
                  ELSE n,
                  Tail(os))

SerialCall(op, port, ret, os, count) ==
    [NoCall EXCEPT !.op = op, !.port = port, !.ret = ret, !.os = os,
                   !.count = count, !.wasOpen = m_isOpen,
                   !.released = Released(call.released, os)]

\* SerialComm::closePort
closePort(handle, held, port) ==
    IF handle >= 0
    THEN [handle |-> -1, held |-> held \ {port}, os |-> <<"close">>]
    ELSE [handle |-> handle, held |-> held, os |-> << >>]

\* close() calling ::close whatever the state of the transport
SerialClose_Unguarded(isOpen, handle, held, port) ==
    [isOpen |-> FALSE, handle |-> -1, held |-> held \ {port}, os |-> <<"close">>]

\* SerialComm::close: if (!m_isOpen) return; closePort(); m_isOpen = false
SerialClose(isOpen, handle, held, port) ==
    IF ~isOpen
    THEN [isOpen |-> FALSE, handle |-> handle, held |-> held, os |-> << >>]
    ELSE [isOpen |-> FALSE, handle |-> closePort(handle, held, port).handle,
          held |-> closePort(handle, held, port).held,
          os |-> closePort(handle, held, port).os]

\* SerialComm::openPort
openPort(port, result, handle, held) ==
    IF result = "ok"
    THEN [ret |-> TRUE, handle |-> Fd, held |-> held \cup {port}, os |-> <<"open">>]
    ELSE IF result = "open_fails"
    THEN [ret |-> FALSE, handle |-> handle, held |-> held, os |-> <<"open">>]
    ELSE [ret |-> FALSE, handle |-> -1, held |-> held, os |-> <<"open", "close">>]

NotHung == call.ret # "hang"

\* SerialComm::open.  On an open transport it calls close() with m_mutex
\* held: locking a std::mutex the thread owns is undefined, the call either
\* never returns or goes on.
SC_open(port, result, relock) ==
    /\ NotHung
    /\ IF m_isOpen /\ relock = "hang"
       THEN /\ call' = SerialCall("open", port, "hang", << >>, 0)
            /\ UNCHANGED <<m_isOpen, m_port, m_handle, handles>>
       ELSE LET c == SerialClose(m_isOpen, m_handle, handles, m_port)
                o == openPort(port, result, c.handle, c.held)
            IN  /\ m_port' = port
                /\ m_isOpen' = o.ret
                /\ m_handle' = o.handle
                /\ handles' = o.held
                /\ call' = SerialCall("open", port,
                                      IF o.ret THEN "true" ELSE "false",
                                      c.os \o o.os, 0)
    /\ UNCHANGED <<gcVars, progVars,
                   wireVars>>

\* SerialComm::close
SC_close ==
    /\ NotHung
    /\ LET c == SerialClose(m_isOpen, m_handle, handles, m_port)
       IN  /\ m_isOpen' = c.isOpen
           /\ m_handle' = c.handle
           /\ handles' = c.held
           /\ call' = SerialCall("close", m_port, "void", c.os, 0)
    /\ UNCHANGED <<m_port, gcVars, progVars,
                   wireVars>>

\* SerialComm::send
SC_send(writeOk) ==
    /\ NotHung
    /\ call' = IF ~m_isOpen THEN SerialCall("send", m_port, "false", << >>, 0)
               ELSE SerialCall("send", m_port,
                               IF writeOk THEN "true" ELSE "false", <<"write">>, 0)
    /\ UNCHANGED <<m_isOpen, m_port, m_handle, handles, gcVars, progVars,
                   wireVars>>

\* SerialComm::receive: bytesRead is what ::read returned
SC_receive(bytesRead) ==
    /\ NotHung
    /\ call' = IF ~m_isOpen THEN SerialCall("receive", m_port, "false", << >>, 0)
               ELSE SerialCall("receive", m_port,
                               IF bytesRead > 0 THEN "true" ELSE "false",
                               <<"read">>, IF bytesRead > 0 THEN bytesRead ELSE 0)
    /\ UNCHANGED <<m_isOpen, m_port, m_handle, handles, gcVars, progVars,
                   wireVars>>

\* SerialComm::available: pending is what FIONREAD reports
SC_available(pending, ioctlOk) ==
    /\ NotHung
    /\ call' = IF ~m_isOpen THEN SerialCall("available", m_port, "void", << >>, 0)
               ELSE SerialCall("available", m_port, "void", <<"ioctl">>,
                               IF ioctlOk THEN pending ELSE 0)
    /\ UNCHANGED <<m_isOpen, m_port, m_handle, handles, gcVars, progVars,
                   wireVars>>

\* SerialComm::flush
SC_flush ==
    /\ NotHung
    /\ call' = IF ~m_isOpen THEN SerialCall("flush", m_port, "void", << >>, 0)
               ELSE SerialCall("flush", m_port, "void", <<"read">>, 0)
    /\ UNCHANGED <<m_isOpen, m_port, m_handle, handles, gcVars, progVars,
                   wireVars>>

\* ------------------------------------------- SerialComm, callers in parallel
\* The threads of the program call into one SerialComm at the same time.
\* Every public operation is lock_guard(m_mutex), body, unlock; ::write puts
\* a frame on the line piece by piece.
MaxSends == 1      \* frames each sender sends, calls the telemetry thread makes
FrameChunks == 3   \* pieces one frame is written in

Senders == {"patrol", "track"}

\* the operations each thread makes, in the program's order for main
OpsOf(th) ==
    IF th \in Senders THEN {"send"}
    ELSE IF th = "recv" THEN {"available", "receive", "flush"}
    ELSE IF io["main"].calls = 0 THEN {"open"}
    ELSE IF io["main"].calls = 1 THEN {"close"}
    ELSE {}

CallsLeft(th) ==
    IF th \in Senders THEN io[th].calls < MaxSends
    ELSE IF th = "recv" THEN io[th].calls < MaxSends
    ELSE TRUE

\* an operation entered without waiting for m_mutex
LockTransport_NoWait(th) == m_mutex' = th

\* std::lock_guard<std::mutex> lock(m_mutex)
LockTransport(th) ==
    /\ m_mutex = "none"
    /\ m_mutex' = th

\* a thread enters a public operation of SerialComm
W_Enter(th, op) ==
    /\ io[th].pc = "idle"
    /\ CallsLeft(th)
    /\ op \in OpsOf(th)
    /\ LockTransport(th)
    /\ io' = [io EXCEPT ![th] = [NoIo EXCEPT !.pc = "in", !.op = op,
                                             !.calls = io[th].calls]]
    /\ UNCHANGED <<m_isOpen, m_port, m_handle, handles, wire, call, gcVars,
                   progVars>>

\* SerialComm::open, body
W_Open(port, result) ==
    /\ io["main"].pc = "in"
    /\ io["main"].op = "open"
    /\ LET c == SerialClose(m_isOpen, m_handle, handles, m_port)
           o == openPort(port, result, c.handle, c.held)
       IN  /\ m_port' = port
           /\ m_isOpen' = o.ret
           /\ m_handle' = o.handle
           /\ handles' = o.held
           /\ io' = [io EXCEPT !["main"].pc = "out", !["main"].ret = o.ret,
                               !["main"].sawOpen = m_isOpen]
    /\ UNCHANGED <<m_mutex, wire, call, gcVars, progVars>>

\* SerialComm::close, body
W_Close ==
    /\ io["main"].pc = "in"
    /\ io["main"].op = "close"
    /\ LET c == SerialClose(m_isOpen, m_handle, handles, m_port)
       IN  /\ m_isOpen' = c.isOpen
           /\ m_handle' = c.handle
           /\ handles' = c.held
    /\ io' = [io EXCEPT !["main"].pc = "out", !["main"].sawOpen = m_isOpen]
    /\ UNCHANGED <<m_port, m_mutex, wire, call, gcVars, progVars>>

\* SerialComm::send: the test of m_isOpen, then ::write starts; target is the
\* number of pieces ::write will have written when it returns
W_Send(th, target) ==
    /\ th \in Senders
    /\ io[th].pc = "in"
    /\ io' = IF ~m_isOpen
             THEN [io EXCEPT ![th].pc = "out", ![th].ret = FALSE,
                             ![th].sawOpen = FALSE]
             ELSE [io EXCEPT ![th].pc = "writing", ![th].sawOpen = TRUE,
                             ![th].target = target]
    /\ UNCHANGED <<m_isOpen, m_port, m_handle, handles, m_mutex, wire, call,
                   gcVars, progVars>>

\* ::write puts the next piece of the frame on the line
W_WritePiece(th) ==
    /\ io[th].pc = "writing"
    /\ io[th].written < io[th].target
    /\ wire' = Append(wire, [by |-> th, frame |-> io[th].calls + 1])
    /\ io' = [io EXCEPT ![th].written = io[th].written + 1]
    /\ UNCHANGED <<m_isOpen, m_port, m_handle, handles, m_mutex, call, gcVars,
                   progVars>>

\* sendData: return written == length
W_WriteReturn(th) ==
    /\ io[th].pc = "writing"
    /\ io[th].written = io[th].target
    /\ io' = [io EXCEPT ![th].pc = "out",
                        ![th].ret = (io[th].written = FrameChunks)]
    /\ UNCHANGED <<m_isOpen, m_port, m_handle, handles, m_mutex, wire, call,
                   gcVars, progVars>>

\* SerialComm::available, SerialComm::receive and SerialComm::flush, body
W_Read(bytes) ==
    /\ io["recv"].pc = "in"
    /\ io' = [io EXCEPT !["recv"].pc = "out", !["recv"].sawOpen = m_isOpen,
                        !["recv"].ret = (m_isOpen /\ bytes > 0)]
    /\ UNCHANGED <<m_isOpen, m_port, m_handle, handles, m_mutex, wire, call,
                   gcVars, progVars>>

\* the lock_guard goes out of scope
W_Leave(th) ==
    /\ io[th].pc = "out"
    /\ m_mutex' = "none"
    /\ io' = [io EXCEPT ![th].pc = "idle", ![th].calls = io[th].calls + 1]
    /\ UNCHANGED <<m_isOpen, m_port, m_handle, handles, wire, call, gcVars,
                   progVars>>

\* ------------------------------------------------ telemetry, step by step
\* receiveThreadFunc with one step per call and per store, and a reader in
\* getReceivedStatus with one step per load.
MaxPolls == 3      \* polls of the receive loop
MaxReads == 2      \* calls of getReceivedStatus

StatusFrames == Telemetry \cup {[pic |-> 12000, yaw |-> 20000, shoot |-> 0, idle |-> 100]}

telRest == <<g_running, g_targetLock, g_shooting, g_gimbalMutex,
             g_currentYawAngle, g_targetType, m_initialized, m_isOpen,
             gimbalVars, patrolVars, timeVars, bestDet, newAngle,
             imageCenterX, sendVars, histVars, nTicks, m_port, handles,
             m_handle, call, wireVars>>

\* m_statusMutex taken without waiting for its owner
LockStatus_NoWait(th) == m_statusMutex' = th

\* std::lock_guard<std::mutex> lock(m_statusMutex)
LockStatus(th) ==
    /\ m_statusMutex = "none"
    /\ m_statusMutex' = th

\* startReceiveThread
R_Start ==
    /\ pc.recv = "off"
    /\ m_running' = TRUE
    /\ pc' = [pc EXCEPT !.recv = "r_poll"]
    /\ UNCHANGED <<m_received, statusVars, telRest>>

\* stopReceiveThread: m_running = false
R_Stop ==
    /\ m_running
    /\ pc.recv # "off"
    /\ m_running' = FALSE
    /\ UNCHANGED <<pc, m_received, statusVars, telRest>>

\* while (m_running.load()) fails
R_Exit ==
    /\ pc.recv = "r_poll"
    /\ ~m_running
    /\ pc' = [pc EXCEPT !.recv = "r_done"]
    /\ UNCHANGED <<m_running, m_received, statusVars, telRest>>

\* size_t available = m_serial.available(); if (available < 15) continue
R_Available(available) ==
    /\ pc.recv = "r_poll"
    /\ m_running
    /\ rx.polls < MaxPolls
    /\ rx' = [rx EXCEPT !.available = available, !.polls = rx.polls + 1,
                        !.last = IF available < 15 THEN "short" ELSE "polling"]
    /\ pc' = [pc EXCEPT !.recv = IF available < 15 THEN "r_poll" ELSE "r_receive"]
    /\ UNCHANGED <<m_running, m_received, m_statusMutex, gs, telRest>>

\* if (!m_serial.receive(buffer, available + 1)) continue
R_Receive(received) ==
    /\ pc.recv = "r_receive"
    /\ rx' = [rx EXCEPT !.last = IF received THEN "polling" ELSE "receive_failed"]
    /\ pc' = [pc EXCEPT !.recv = IF received THEN "r_parse" ELSE "r_poll"]
    /\ UNCHANGED <<m_running, m_received, m_statusMutex, gs, telRest>>

\* CANProtocol::parseCAN07FF(buffer, pic, yaw, shoot, idle) returns false
R_ParseFailed ==
    /\ pc.recv = "r_parse"
    /\ rx' = [rx EXCEPT !.last = "parse_failed"]
    /\ pc' = [pc EXCEPT !.recv = "r_poll"]
    /\ UNCHANGED <<m_running, m_received, m_statusMutex, gs, telRest>>

\* parseCAN07FF returns true with the four values of the frame
R_Parsed(frame) ==
    /\ pc.recv = "r_parse"
    /\ rx' = [rx EXCEPT !.parsed = frame]
    /\ pc' = [pc EXCEPT !.recv = "r_lock"]
    /\ UNCHANGED <<m_running, m_received, m_statusMutex, gs, telRest>>

R_Lock ==
    /\ pc.recv = "r_lock"
    /\ LockStatus("recv")
    /\ pc' = [pc EXCEPT !.recv = "r_pic"]
    /\ UNCHANGED <<m_running, m_received, rx, gs, telRest>>

\* m_receivedPic = pic; ... m_receivedIdle = idle; one store per step
R_Store ==
    /\ pc.recv \in {"r_pic", "r_yaw", "r_shoot", "r_idle"}
    /\ m_received' =
          IF pc.recv = "r_pic" THEN [m_received EXCEPT !.pic = rx.parsed.pic]
          ELSE IF pc.recv = "r_yaw" THEN [m_received EXCEPT !.yaw = rx.parsed.yaw]
          ELSE IF pc.recv = "r_shoot" THEN [m_received EXCEPT !.shoot = rx.parsed.shoot]
          ELSE [m_received EXCEPT !.idle = rx.parsed.idle]
    /\ pc' = [pc EXCEPT !.recv =
                 IF pc.recv = "r_pic" THEN "r_yaw"
                 ELSE IF pc.recv = "r_yaw" THEN "r_shoot"
                 ELSE IF pc.recv = "r_shoot" THEN "r_idle"
                 ELSE "r_unlock"]
    /\ rx' = IF pc.recv = "r_idle"
             THEN [rx EXCEPT !.stored = rx.parsed, !.last = "stored"]
             ELSE rx
    /\ UNCHANGED <<m_running, m_statusMutex, gs, telRest>>

R_Unlock ==
    /\ pc.recv = "r_unlock"
    /\ m_statusMutex' = "none"
    /\ pc' = [pc EXCEPT !.recv = "r_poll"]
    /\ UNCHANGED <<m_running, m_received, rx, gs, telRest>>

\* getReceivedStatus: lock_guard on m_statusMutex
G_Lock ==
    /\ gs.pc = "idle"
    /\ gs.calls < MaxReads
    /\ LockStatus("reader")
    /\ gs' = [gs EXCEPT !.pc = "g_pic"]
    /\ UNCHANGED <<pc, m_running, m_received, rx, telRest>>

\* pic = m_receivedPic; ... idle = m_receivedIdle; one load per step
G_Load ==
    /\ gs.pc \in {"g_pic", "g_yaw", "g_shoot", "g_idle"}
    /\ gs' = IF gs.pc = "g_pic"
             THEN [gs EXCEPT !.pc = "g_yaw", !.out.pic = m_received.pic]
             ELSE IF gs.pc = "g_yaw"
             THEN [gs EXCEPT !.pc = "g_shoot", !.out.yaw = m_received.yaw]
             ELSE IF gs.pc = "g_shoot"
             THEN [gs EXCEPT !.pc = "g_idle", !.out.shoot = m_received.shoot]
             ELSE [gs EXCEPT !.pc = "g_unlock", !.out.idle = m_received.idle]
    /\ UNCHANGED <<pc, m_running, m_received, m_statusMutex, rx, telRest>>

G_Unlock ==
    /\ gs.pc = "g_unlock"
    /\ m_statusMutex' = "none"
    /\ gs' = [gs EXCEPT !.pc = "idle", !.calls = gs.calls + 1]
    /\ UNCHANGED <<pc, m_running, m_received, rx, telRest>>

\* ------------------------------------------------- CANProtocol, call by call
\* The codec is pure: each action is one call on arguments drawn from the sets
\* below and records arguments and result in call.  Bytes are 0..255, a frame
\* is a sequence of bytes; offset k of the code is index k + 1 here.
codecRest == <<pc, g_running, g_targetLock, g_shooting, g_gimbalMutex,
               g_currentYawAngle, ctlVars, gimbalVars, patrolVars, timeVars,
               bestDet, newAngle, imageCenterX, sendVars, histVars, nTicks,
               m_port, handles, m_handle, wireVars, statusVars>>

CommandCanId == 1537        \* 0x601
StatusCanId == 2047         \* 0x07FF
StatusMinLen == 15          \* data.size() < 15

\* uint16ToBytes with the high byte first
uint16ToBytes_BigEndian(value) ==
    [low |-> (value \div 256) % 256, high |-> value % 256]

\* uint16ToBytes: low = value & 0xFF; high = (value >> 8) & 0xFF
uint16ToBytes(value) ==
    [low |-> value % 256, high |-> (value \div 256) % 256]

\* bytesToUint16: (uint16_t)low | ((uint16_t)high << 8), cut to 16 bits
bytesToUint16(low, high) == (low + high * 256) % 65536

\* the two bytes pushed for one 16-bit field
PushU16(value) ==
    LET b == uint16ToBytes(value) IN <<b.low, b.high>>

\* buildUSBCANFrame with the CAN id pushed high byte first
buildUSBCANFrame_IdBigEndian(canId, picAngle, yawAngle, shootStatus, idleAngle) ==
    <<85, 170, 30, 1>> \o <<1, 0, 0, 0>> \o <<10, 0, 0, 0>> \o <<0>>
    \o <<(canId \div 16777216) % 256, (canId \div 65536) % 256,
         (canId \div 256) % 256, canId % 256>>
    \o <<0, 8, 0, 0>>
    \o PushU16(picAngle) \o PushU16(yawAngle)
    \o PushU16(shootStatus) \o PushU16(idleAngle)
    \o <<136>>

\* buildUSBCANFrame: the push_backs in order
buildUSBCANFrame(canId, picAngle, yawAngle, shootStatus, idleAngle) ==
    <<85, 170>>                                  \* 0x55 0xAA
    \o <<30>>                                    \* 0x1E
    \o <<1>>                                     \* command
    \o <<1, 0, 0, 0>>                            \* send count
    \o <<10, 0, 0, 0>>                           \* interval 0x0A
    \o <<0>>                                     \* id type
    \o <<canId % 256, (canId \div 256) % 256,    \* (canId >> 0) & 0xFF ...
         (canId \div 65536) % 256, (canId \div 16777216) % 256>>
    \o <<0>>                                     \* frame type
    \o <<8>>                                     \* data length
    \o <<0>> \o <<0>>                            \* IDACC, dataACC
    \o PushU16(picAngle) \o PushU16(yawAngle)
    \o PushU16(shootStatus) \o PushU16(idleAngle)
    \o <<136>>                                   \* 0x88

\* filterCANID accepting any frame that holds offsets 3 and 4
filterCANID_ShortOk(data, targetId) ==
    IF Len(data) < 5 THEN FALSE
    ELSE bytesToUint16(data[4], data[5]) = targetId % 65536

\* filterCANID: size test, then data[3] | data[4] << 8 against targetId & 0xFFFF
filterCANID(data, targetId) ==
    IF Len(data) < StatusMinLen THEN FALSE
    ELSE LET canId == bytesToUint16(data[4], data[5])
         IN  canId = targetId % 65536

\* parseCAN07FF taking the first byte of each pair as the low byte
parseCAN07FF_LowFirst(data, out) ==
    IF Len(data) < StatusMinLen THEN [out EXCEPT !.ret = FALSE]
    ELSE IF ~filterCANID(data, StatusCanId) THEN [out EXCEPT !.ret = FALSE]
    ELSE [ret |-> TRUE,
          pic |-> bytesToUint16(data[8], data[9]),
          yaw |-> bytesToUint16(data[10], data[11]),
          shoot |-> bytesToUint16(data[12], data[13]),
          idle |-> bytesToUint16(data[14], data[15])]

\* parseCAN07FF: out holds the caller's four variables, written on success only
parseCAN07FF(data, out) ==
    IF Len(data) < StatusMinLen THEN [out EXCEPT !.ret = FALSE]
    ELSE IF ~filterCANID(data, StatusCanId) THEN [out EXCEPT !.ret = FALSE]
    ELSE [ret |-> TRUE,
          pic |-> bytesToUint16(data[9], data[8]),
          yaw |-> bytesToUint16(data[11], data[10]),
          shoot |-> bytesToUint16(data[13], data[12]),
          idle |-> bytesToUint16(data[15], data[14])]

\* arguments of buildUSBCANFrame: uint32_t ids (those up to 0x7FFFFFFF, the
\* largest 32-bit signed integer), uint16_t fields
CanIdArgs == {0, CommandCanId, 305419896, 2147483647}    \* 0x12345678, 0x7FFFFFFF
PicArgs == {0, 255, 11000, 65535}
YawArgs == {256, 20000, 30000}
ShootWordArgs == {0, 1, 513}
IdleArgs == {0, 15000, 43981}                            \* 0xABCD

\* received buffers: seventeen bytes, cut at every length from none to all
IdBytes == {<<255, 7>>, <<254, 7>>, <<255, 6>>, <<7, 255>>}
DataBytes == {<<1, 2, 3, 4, 5, 6, 7, 8>>,
              <<42, 248, 78, 32, 0, 1, 0, 100>>,
              <<255, 255, 255, 255, 255, 255, 255, 255>>}
RawBuffer(id, d) == <<90, 0, 8>> \o id \o <<170, 85>> \o d \o <<13, 10>>
RawFrames ==
    {SubSeq(RawBuffer(id, d), 1, n) : id \in IdBytes, d \in DataBytes, n \in 0..17}
TargetIdArgs == {StatusCanId, 2046, 67583, 0}            \* 0x07FE, 0x107FF
OutBefore == {[ret |-> FALSE, pic |-> 0, yaw |-> 0, shoot |-> 0, idle |-> 0],
              [ret |-> FALSE, pic |-> 9, yaw |-> 9, shoot |-> 9, idle |-> 9]}

FrameMinLen == 30           \* frame.size() < 30
Status7FEMinLen == 13       \* data.size() < 13

\* parseUSBCANFrame without the test of the trailer
parseUSBCANFrame_NoTrailer(frame, out) ==
    IF Len(frame) < FrameMinLen THEN [out EXCEPT !.ret = FALSE]
    ELSE IF frame[1] # 85 \/ frame[2] # 170 THEN [out EXCEPT !.ret = FALSE]
    ELSE [out EXCEPT !.ret = TRUE,
                     !.canId = frame[14] + frame[15] * 256 + frame[16] * 65536
                               + frame[17] * 16777216,
                     !.written = {"canId"}]

\* parseUSBCANFrame: out holds the caller's five variables and, as history,
\* the names of those the call assigned; the four data outputs are never
\* assigned
parseUSBCANFrame(frame, out) ==
    IF Len(frame) < FrameMinLen THEN [out EXCEPT !.ret = FALSE]
    ELSE IF frame[1] # 85 \/ frame[2] # 170 THEN [out EXCEPT !.ret = FALSE]
    ELSE IF frame[30] # 136 THEN [out EXCEPT !.ret = FALSE]
    ELSE [out EXCEPT !.ret = TRUE,
                     !.canId = frame[14] + frame[15] * 256 + frame[16] * 65536
                               + frame[17] * 16777216,
                     !.written = {"canId"}]

\* parseCAN7FE: two 16-bit outputs, two 8-bit outputs
parseCAN7FE(data, out) ==
    IF Len(data) < Status7FEMinLen THEN [out EXCEPT !.ret = FALSE]
    ELSE IF data[4] # 254 \/ data[5] # 7 THEN [out EXCEPT !.ret = FALSE]
    ELSE [ret |-> TRUE,
          data1 |-> bytesToUint16(data[9], data[8]),
          data2 |-> bytesToUint16(data[11], data[10]),
          data3 |-> data[12],
          data4 |-> data[13],
          written |-> {"data1", "data2", "data3", "data4"}]

\* frames handed to parseUSBCANFrame: frames as built, and the same cut by one
\* byte, lengthened by one byte, or with one sentinel byte changed
BuiltFrames ==
    {buildUSBCANFrame(canId, pic, 20000, 1, 0) :
        canId \in CanIdArgs, pic \in {0, 11000}}
Damage == {"none", "cut", "longer", "header0", "header1", "trailer"}
Damaged(frame, how) ==
    CASE how = "none" -> frame
      [] how = "cut" -> SubSeq(frame, 1, Len(frame) - 1)
      [] how = "longer" -> frame \o <<136>>
      [] how = "header0" -> [frame EXCEPT ![1] = 84]
      [] how = "header1" -> [frame EXCEPT ![2] = 85]
      [] how = "trailer" -> [frame EXCEPT ![30] = 137]
FrameInputs == {Damaged(f, how) : f \in BuiltFrames, how \in Damage}
FrameOutBefore ==
    {[ret |-> FALSE, canId |-> c, data1 |-> d, data2 |-> d, data3 |-> d,
      data4 |-> d, written |-> {}] : c \in {0, 9}, d \in {7}}
Out7FEBefore ==
    {[ret |-> FALSE, data1 |-> d, data2 |-> d, data3 |-> d, data4 |-> d,
      written |-> {}] : d \in {0, 9}}

B_Build ==
    /\ \E canId \in CanIdArgs, pic \in PicArgs, yaw \in YawArgs,
          shoot \in ShootWordArgs, idle \in IdleArgs :
          call' = [op |-> "buildUSBCANFrame", canId |-> canId, pic |-> pic,
                   yaw |-> yaw, shoot |-> shoot, idle |-> idle,
                   frame |-> buildUSBCANFrame(canId, pic, yaw, shoot, idle)]
    /\ UNCHANGED codecRest

B_Filter ==
    /\ \E data \in RawFrames, targetId \in TargetIdArgs :
          call' = [op |-> "filterCANID", data |-> data, targetId |-> targetId,
                   ret |-> filterCANID(data, targetId)]
    /\ UNCHANGED codecRest

B_Parse ==
    /\ \E data \in RawFrames, out \in OutBefore :
          call' = [op |-> "parseCAN07FF", data |-> data, before |-> out,
                   out |-> parseCAN07FF(data, out)]
    /\ UNCHANGED codecRest

B_ParseFrame ==
    /\ \E frame \in FrameInputs, out \in FrameOutBefore :
          call' = [op |-> "parseUSBCANFrame", data |-> frame, before |-> out,
                   out |-> parseUSBCANFrame(frame, out)]
    /\ UNCHANGED codecRest

\* a frame built and handed straight to parseUSBCANFrame
B_RoundTrip ==
    /\ \E canId \in CanIdArgs, pic \in PicArgs, shoot \in {0, 1},
          out \in FrameOutBefore :
          LET frame == buildUSBCANFrame(canId, pic, 20000, shoot, 0)
          IN  call' = [op |-> "roundTrip", canId |-> canId, data |-> frame,
                       before |-> out, out |-> parseUSBCANFrame(frame, out)]
    /\ UNCHANGED codecRest

B_Parse7FE ==
    /\ \E data \in RawFrames, out \in Out7FEBefore :
          call' = [op |-> "parseCAN7FE", data |-> data, before |-> out,
                   out |-> parseCAN7FE(data, out)]
    /\ UNCHANGED codecRest

\* ------------------------------------------------------ the three locks
\* The four threads of the program with every lock they take: g_gimbalMutex
\* around the setters, m_mutex inside each public operation of SerialComm
\* (send under sendCommand, close under GimbalController::close, available and
\* receive in the telemetry thread), m_statusMutex around the store of a
\* parsed frame.  io[th] is the thread's position inside the transport.
MaxLockTicks == 1           \* ticks of the detection thread
MaxLockSteps == 1           \* steps of the patrol thread
MaxLockPolls == 1           \* polls of the telemetry thread

lockRest == <<pc, g_running, g_targetLock, g_shooting, g_gimbalMutex,
              g_currentYawAngle, ctlVars, gimbalVars, patrolVars, timeVars,
              bestDet, newAngle, imageCenterX, sendVars, histVars, nTicks,
              m_port, handles, m_handle, wire, statusVars, call>>

\* the thread is at a call of the operation
AtTransportCall(th, op) ==
    CASE op = "send" -> th \in Threads /\ pc[th] \in SendLabels /\ ld[th] = 4
      [] op = "close" -> th = "main" /\ pc.main = "c_serial"
      [] op = "available" ->
            th = "recv" /\ pc.recv = "r_poll" /\ m_running /\ rx.polls < MaxLockPolls
      [] op = "receive" -> th = "recv" /\ pc.recv = "r_receive"

\* the body of the operation the thread is in has run
BodyDone(th) ==
    CASE io[th].op = "send" -> ld[th] = 0
      [] io[th].op = "close" -> pc.main # "c_serial"
      [] io[th].op = "available" -> rx.polls > io[th].target
      [] io[th].op = "receive" -> pc.recv # "r_receive"

InTransport(th) == io[th].pc = "in"
Outside(th) == io[th].pc = "idle"

\* an operation whose lock_guard never gives m_mutex back
L_Unlock_Never(th) ==
    /\ InTransport(th)
    /\ BodyDone(th)
    /\ io' = [io EXCEPT ![th] = NoIo]
    /\ UNCHANGED <<m_mutex, wire, lockRest>>

\* std::lock_guard<std::mutex> lock(m_mutex) at the head of an operation
L_Lock(th, op) ==
    /\ Outside(th)
    /\ AtTransportCall(th, op)
    /\ LockTransport(th)
    /\ io' = [io EXCEPT ![th] = [NoIo EXCEPT !.pc = "in", !.op = op,
                                             !.target = rx.polls]]
    /\ UNCHANGED lockRest

\* the operation returns and its lock_guard gives m_mutex back
L_Unlock(th) ==
    /\ InTransport(th)
    /\ BodyDone(th)
    /\ m_mutex' = "none"
    /\ io' = [io EXCEPT ![th] = NoIo]
    /\ UNCHANGED lockRest

\* m_serial.available() inside the lock; if (available < 15) continue
L_Available(available) ==
    /\ InTransport("recv")
    /\ io["recv"].op = "available"
    /\ ~BodyDone("recv")
    /\ rx' = [rx EXCEPT !.available = available, !.polls = rx.polls + 1,
                        !.last = IF available < 15 THEN "short" ELSE "polling"]
    /\ pc' = [pc EXCEPT !.recv = IF available < 15 THEN "r_poll" ELSE "r_receive"]
    /\ UNCHANGED <<m_running, m_received, m_statusMutex, gs, telRest>>

\* ------------------------------------------------------ faults in the loops
\* An exception derived from std::exception is thrown somewhere inside an
\* iteration: the stack unwinds (a lock_guard held by the iteration releases
\* g_gimbalMutex, the locals of the iteration and of sendCommand are gone), the
\* catch at the end of the loop body logs, sleeps one second and the loop
\* tests g_running again.  What the iteration stored before the throw stays.
\* The last fault is remembered in call.
MaxFaults == 2              \* faults in one run

PatrolBody == {"p_if", "p_step", "p_send", "p_pub"}
TrackBody ==
    {"t_lock", "t_pic", "t_pic_send1", "t_pic_send2", "t_pic_rel", "t_yaw_read",
     "t_yaw", "t_yaw_send", "t_yaw_rel", "t_fire", "t_trig_send", "t_trig_rel",
     "t_poff_send", "t_poff_rel", "t_foff_send", "t_foff_rel", "t_lost_stop",
     "t_lost_send", "t_lost_rel", "t_lost", "t_key"}

FaultsSoFar == IF call.op = "fault" THEN call.n ELSE 0
FaultRecord(th, iteration) ==
    [op |-> "fault", by |-> th, held |-> g_gimbalMutex = th,
     iteration |-> iteration, n |-> FaultsSoFar + 1]

\* a fault whose unwinding leaves the mutex with the thread
T_Fault_KeepLock ==
    /\ pc.track \in TrackBody
    /\ FaultsSoFar < MaxFaults
    /\ call' = FaultRecord("track", nTicks)
    /\ Goto("track", "t_while")
    /\ frm' = [frm EXCEPT !.track = NoFrame]
    /\ ld' = [ld EXCEPT !.track = 0]
    /\ bestDet' = NoDet
    /\ newAngle' = 0
    /\ UNCHANGED <<g_running, g_targetLock, g_shooting, g_gimbalMutex,
                   g_currentYawAngle, ctlVars, gimbalVars, patrolVars, timeVars,
                   imageCenterX, histVars, nTicks, m_port, handles, m_handle,
                   wireVars, statusVars>>

\* detectionThread: catch (const std::exception& e) { log; sleep 1 s }
T_Fault ==
    /\ pc.track \in TrackBody
    /\ FaultsSoFar < MaxFaults
    /\ call' = FaultRecord("track", nTicks)
    /\ Release("track")
    /\ Goto("track", "t_while")
    /\ frm' = [frm EXCEPT !.track = NoFrame]
    /\ ld' = [ld EXCEPT !.track = 0]
    /\ bestDet' = NoDet
    /\ newAngle' = 0
    /\ UNCHANGED <<g_running, g_targetLock, g_shooting, g_currentYawAngle,
                   ctlVars, gimbalVars, patrolVars, timeVars, imageCenterX,
                   histVars, nTicks, m_port, handles, m_handle, wireVars,
                   statusVars>>

\* patrolThread: catch (const std::exception& e) { log; sleep 1 s }
P_Fault ==
    /\ pc.patrol \in PatrolBody
    /\ FaultsSoFar < MaxFaults
    /\ call' = FaultRecord("patrol", nPatrol)
    /\ Release("patrol")
    /\ Goto("patrol", "p_while")
    /\ frm' = [frm EXCEPT !.patrol = NoFrame]
    /\ ld' = [ld EXCEPT !.patrol = 0]
    /\ UNCHANGED <<g_running, g_targetLock, g_shooting, g_currentYawAngle,
                   ctlVars, gimbalVars, patrolVars, timeVars, bestDet, newAngle,
                   imageCenterX, histVars, nTicks, m_port, handles, m_handle,
                   wireVars, statusVars>>

\* ------------------------------------------------- two runs, one after the other
\* The program is run twice on the same tick times: the first run is logged
\* tick by tick, the process is started again, and the second run is logged
\* beside the first.  The telemetry thread stores what it receives at any
\* moment of either run.  The log is kept in call.
MaxTwinTicks == 3           \* ticks of each run

\* the time between the ticks of a run, the same in both runs
TwinDt(n) == IF n = 2 THEN ShootPulseOn ELSE ShootPulseOff

NoLog == [op |-> "twin", phase |-> 1, first |-> << >>, second |-> << >>,
          received |-> ZeroStatus]
TwinLog == IF call.op = "twin" THEN call ELSE NoLog

\* what a tick was given, and what it left behind
TickEntry ==
    [frame |-> tick.frame, colour |-> g_targetType,
     lock |-> g_targetLock, fire |-> g_shooting,
     cmd |-> <<m_picAngle, m_yawAngle, m_shootStatus, m_idleAngle>>,
     sent |-> tick.sent, wrote |-> lastWrite]

TW_Frame ==
    \E f \in CoreFrames, cols \in FrameCols :
        T_Frame(TwinDt(nTicks + 1), cols, f, MaxTwinTicks)

\* the end of a tick is logged, once, when every earlier tick was
TW_Record ==
    /\ pc.track = "t_key"
    /\ LET log == TwinLog
           mine == IF log.phase = 1 THEN log.first ELSE log.second
       IN  /\ Len(mine) = nTicks - 1
           /\ call' = IF log.phase = 1
                      THEN [log EXCEPT !.first = Append(mine, TickEntry)]
                      ELSE [log EXCEPT !.second = Append(mine, TickEntry)]
    /\ UNCHANGED codecRest

\* the first run is over: the process starts again, from main
TW_Restart ==
    /\ TwinLog.phase = 1
    /\ Len(TwinLog.first) = MaxTwinTicks
    /\ pc.track = "t_while"
    /\ call' = [TwinLog EXCEPT !.phase = 2, !.received = m_received]
    /\ pc' = [main |-> "m_select", track |-> "off", patrol |-> "off", recv |-> "off"]
    /\ g_running' = TRUE
    /\ g_targetLock' = FALSE
    /\ g_shooting' = FALSE
    /\ g_gimbalMutex' = "none"
    /\ g_currentYawAngle' = CenterAngle
    /\ g_targetType' = "red"
    /\ m_initialized' = FALSE
    /\ m_running' = FALSE
    /\ m_isOpen' = FALSE
    /\ m_picAngle' = InitialPic
    /\ m_yawAngle' = InitialYaw
    /\ m_shootStatus' = 0
    /\ m_idleAngle' = 0
    /\ m_received' = ZeroStatus
    /\ elapsedSinceLost' = 0
    /\ elapsedSinceLock' = 0
    /\ elapsedSincePulse' = 0
    /\ bestDet' = NoDet
    /\ newAngle' = 0
    /\ imageCenterX' = 640
    /\ frm' = [t \in Threads |-> NoFrame]
    /\ ld' = [t \in Threads |-> 0]
    /\ lastWrite' = NoWrite
    /\ tick' = NoTick
    /\ absence' = -1
    /\ run' = NoRun
    /\ nTicks' = 0
    /\ UNCHANGED <<patrolVars, m_port, handles, m_handle, wireVars, statusVars>>

\* ------------------------------------------------- the age of the fire signal
\* The detection thread with a clock beside it: before each tick the time dt to
\* the tick is drawn and the two ages are advanced; at the end of the tick the
\* change of shoot the tick made is stamped.  The clock is kept in call.
MaxFireTicks == 4           \* ticks of the detection thread

\* tick spacings of 50, 150, 200 and 400 ms
FireDts == {1, 3, ShootPulseOff, ShootPulseOn}

\* on, off: time since the tick that last changed shoot 0 -> 1, 1 -> 0 (-1: no
\* such tick yet), counted up to ShootPulseOn; offAtOn, onAtOff: what off (on)
\* was in the tick that last turned the signal on (off)
NoClock == [op |-> "fire", stage |-> "idle", dt |-> 0, on |-> -1, off |-> -1,
            offAtOn |-> -1, onAtOff |-> -1, why |-> "none"]
FireClock == IF call.op = "fire" THEN call ELSE NoClock

AgeClock(c, dt) == IF c < 0 THEN c ELSE Min(c + dt, ShootPulseOn)

\* why a tick changed shoot 1 -> 0
OffReason ==
    IF bestDet = NoDet THEN "lost"
    ELSE IF ~centerStable THEN "off_centre"
    ELSE "pulse"

F_Time(dt) ==
    /\ pc.track = "t_while"
    /\ g_running
    /\ nTicks < MaxFireTicks
    /\ FireClock.stage = "idle"
    /\ call' = [FireClock EXCEPT !.stage = "timed", !.dt = dt,
                                 !.on = AgeClock(@, dt), !.off = AgeClock(@, dt)]
    /\ UNCHANGED codecRest

F_Frame ==
    /\ FireClock.stage = "timed"
    /\ \E cols \in FrameCols, f \in CoreFrames :
          T_Frame(FireClock.dt, cols, f, MaxFireTicks)

\* the end of the tick: tick.shoot is shoot before the tick, m_shootStatus after
F_Stamp ==
    /\ pc.track = "t_key"
    /\ FireClock.stage = "timed"
    /\ call' = IF tick.shoot = 0 /\ m_shootStatus = 1
               THEN [FireClock EXCEPT !.stage = "idle", !.on = 0,
                                      !.offAtOn = FireClock.off]
               ELSE IF tick.shoot = 1 /\ m_shootStatus = 0
               THEN [FireClock EXCEPT !.stage = "idle", !.off = 0,
                                      !.onAtOff = FireClock.on,
                                      !.why = OffReason]
               ELSE [FireClock EXCEPT !.stage = "idle"]
    /\ UNCHANGED codecRest

F_Key == FireClock.stage = "idle" /\ T_Key

\* ------------------------------------------------------------ specification
MainNext ==
    \/ SelectTargetType({1, 3})
    \/ Initialize
    \/ MainReturnFailed
    \/ StartThreads
    \/ MainWait
    \/ JoinDetection
    \/ JoinPatrol
    \/ CloseStopReceive
    \/ CloseJoinReceive
    \/ CloseSetShoot
    \/ CloseSerial

RecvNext ==
    \/ RecvUpdate
    \/ RecvExit

PatrolNext ==
    \/ P_While(MaxPatrolSteps)
    \/ P_If
    \/ P_Step
    \/ P_Publish

TrackNext(dts, frames, maxTicks) ==
    \/ \E dt \in dts, cols \in FrameCols, f \in frames : T_Frame(dt, cols, f, maxTicks)
    \/ T_Lock
    \/ T_Pic
    \/ T_PicRelease
    \/ T_YawRead
    \/ T_Yaw
    \/ T_YawRelease
    \/ T_Trigger
    \/ T_TriggerRelease
    \/ T_PulseOff
    \/ T_PulseOffRelease
    \/ T_Hold
    \/ T_ForceOff
    \/ T_ForceOffRelease
    \/ T_LostStop
    \/ T_LostStopRelease
    \/ T_Lost
    \/ T_Key
    \/ T_Cleanup
    \/ T_CleanupRelease

SendNext ==
    \E th \in Threads : SendCommandLoad(th) \/ SendCommandWrite(th)

Next ==
    \/ MainNext
    \/ RecvNext
    \/ PatrolNext
    \/ TrackNext(CoreDts, CoreFrames, MaxTicks)
    \/ SendNext

Spec == Init /\ [][Next]_vars

\* The detection thread alone (the patrol thread, the telemetry thread and the
\* shutdown are not scheduled), over longer runs of ticks 50 to 250 ms or 1.1 s
\* apart.
NextTrack ==
    \/ SelectTargetType({1, 3})
    \/ Initialize
    \/ StartThreads
    \/ TrackNext(TrackDts, TrackFrames, MaxTrackTicks)
    \/ SendCommandLoad("track")
    \/ SendCommandWrite("track")

SpecTrack == Init /\ [][NextTrack]_vars

\* The detection thread alone, on every frame of Frames and either colour.
NextDetect ==
    \/ SelectTargetType(1..3)
    \/ Initialize
    \/ StartThreads
    \/ TrackNext({ShootPulseOff, ShootPulseOn}, Frames, MaxDetectTicks)
    \/ SendCommandLoad("track")
    \/ SendCommandWrite("track")

SpecDetect == Init /\ [][NextDetect]_vars

\* The detection and patrol threads under fair scheduling: a thread that can
\* take its next step, and stays able to, takes it.
PatrolSteps ==
    PatrolNext \/ SendCommandLoad("patrol") \/ SendCommandWrite("patrol")
TrackSteps ==
    \/ TrackNext(CoreDts, CoreFrames, MaxTicks)
    \/ SendCommandLoad("track")
    \/ SendCommandWrite("track")
NextLive ==
    \/ SelectTargetType({1, 3})
    \/ Initialize
    \/ StartThreads
    \/ PatrolSteps
    \/ TrackSteps
SpecLive ==
    Init /\ [][NextLive]_vars /\ WF_vars(PatrolSteps) /\ WF_vars(TrackSteps)

\* The whole program under fair scheduling: main, the telemetry thread, the
\* patrol thread and the detection thread each take a step they stay able to
\* take.
MainSteps ==
    MainNext \/ SendCommandLoad("main") \/ SendCommandWrite("main")
NextStop ==
    \/ MainSteps
    \/ RecvNext
    \/ PatrolSteps
    \/ TrackSteps
SpecStop ==
    /\ Init /\ [][NextStop]_vars
    /\ WF_vars(MainSteps) /\ WF_vars(RecvNext)
    /\ WF_vars(PatrolSteps) /\ WF_vars(TrackSteps)

\* The whole program with its three locks, under fair scheduling.
MainLockSteps ==
    \/ /\ Outside("main")
       /\ \/ SelectTargetType({1, 3})
          \/ Initialize
          \/ MainReturnFailed
          \/ StartThreads
          \/ MainWait
          \/ JoinDetection
          \/ JoinPatrol
          \/ CloseStopReceive
          \/ CloseJoinReceive
          \/ CloseSetShoot
          \/ SendCommandLoad("main")
    \/ InTransport("main") /\ ~BodyDone("main") /\ io["main"].op = "send"
          /\ SendCommandWrite("main")
    \/ InTransport("main") /\ io["main"].op = "close" /\ CloseSerial
    \/ \E op \in {"send", "close"} : L_Lock("main", op)
    \/ L_Unlock("main")
PatrolLockSteps ==
    \/ /\ Outside("patrol")
       /\ \/ P_While(MaxLockSteps)
          \/ P_If
          \/ P_Step
          \/ P_Publish
          \/ SendCommandLoad("patrol")
    \/ InTransport("patrol") /\ ~BodyDone("patrol") /\ SendCommandWrite("patrol")
    \/ L_Lock("patrol", "send")
    \/ L_Unlock("patrol")
TrackLockSteps ==
    \/ /\ Outside("track")
       /\ \/ TrackNext({ShootPulseOff, ShootPulseOn}, CoreFrames, MaxLockTicks)
          \/ SendCommandLoad("track")
    \/ InTransport("track") /\ ~BodyDone("track") /\ SendCommandWrite("track")
    \/ L_Lock("track", "send")
    \/ L_Unlock("track")
RecvLockSteps ==
    \/ /\ Outside("recv")
       /\ \/ R_Exit
          \/ R_ParseFailed
          \/ \E frame \in Telemetry : R_Parsed(frame)
          \/ R_Lock
          \/ R_Store
          \/ R_Unlock
    \/ \E available \in {14, 15} : L_Available(available)
    \/ InTransport("recv") /\ io["recv"].op = "receive"
          /\ \E received \in BOOLEAN : R_Receive(received)
    \/ \E op \in {"available", "receive"} : L_Lock("recv", op)
    \/ L_Unlock("recv")
NextLocks ==
    \/ MainLockSteps
    \/ PatrolLockSteps
    \/ TrackLockSteps
    \/ RecvLockSteps
SpecLocks ==
    /\ Init /\ [][NextLocks]_vars
    /\ WF_vars(MainLockSteps) /\ WF_vars(RecvLockSteps)
    /\ WF_vars(PatrolLockSteps) /\ WF_vars(TrackLockSteps)

\* The detection and patrol threads with faults thrown inside their iterations.
NextFault ==
    \/ SelectTargetType({1, 3})
    \/ Initialize
    \/ StartThreads
    \/ PatrolSteps
    \/ TrackSteps
    \/ T_Fault
    \/ P_Fault
SpecFault == Init /\ [][NextFault]_vars

\* Two runs of the detection thread with the telemetry thread beside it.
NextTwin ==
    \/ SelectTargetType({1, 2})
    \/ Initialize
    \/ StartThreads
    \/ TW_Frame
    \/ T_Lock
    \/ T_Pic
    \/ T_PicRelease
    \/ T_YawRead
    \/ T_Yaw
    \/ T_YawRelease
    \/ T_Trigger
    \/ T_TriggerRelease
    \/ T_PulseOff
    \/ T_PulseOffRelease
    \/ T_Hold
    \/ T_ForceOff
    \/ T_ForceOffRelease
    \/ T_LostStop
    \/ T_LostStopRelease
    \/ T_Lost
    \/ T_Key
    \/ T_Cleanup
    \/ T_CleanupRelease
    \/ SendCommandLoad("track")
    \/ SendCommandWrite("track")
    \/ RecvUpdate
    \/ TW_Record
    \/ TW_Restart
SpecTwin == Init /\ [][NextTwin]_vars

\* The detection thread with the clock of the fire signal.
NextFire ==
    \/ SelectTargetType({1, 3})
    \/ Initialize
    \/ StartThreads
    \/ \E dt \in FireDts : F_Time(dt)
    \/ F_Frame
    \/ T_Lock
    \/ T_Pic
    \/ T_PicRelease
    \/ T_YawRead
    \/ T_Yaw
    \/ T_YawRelease
    \/ T_Trigger
    \/ T_TriggerRelease
    \/ T_PulseOff
    \/ T_PulseOffRelease
    \/ T_Hold
    \/ T_ForceOff
    \/ T_ForceOffRelease
    \/ T_LostStop
    \/ T_LostStopRelease
    \/ T_Lost
    \/ F_Stamp
    \/ F_Key
    \/ SendCommandLoad("track")
    \/ SendCommandWrite("track")
SpecFire == Init /\ [][NextFire]_vars

\* The codec, call by call.
NextCodec ==
    \/ B_Build
    \/ B_Filter
    \/ B_Parse
    \/ B_ParseFrame
    \/ B_Parse7FE
    \/ B_RoundTrip
SpecCodec == Init /\ [][NextCodec]_vars

\* The actuator driven call by call, with every argument of AngleArgs and
\* ShootArgs and every answer of the operating system.
NextApi ==
    \/ \E sp \in CallerPorts, openable \in OpenableSets, rateOk \in BOOLEAN :
          GC_initialize(sp, openable, rateOk) /\ UNCHANGED <<progVars, wireVars>>
    \/ \E w \in BOOLEAN : GC_close(w) /\ UNCHANGED <<progVars, wireVars>>
    \/ \E a \in AngleArgs, w \in BOOLEAN : GC_setPicAngle(a, w) /\ UNCHANGED <<progVars, wireVars>>
    \/ \E a \in AngleArgs, w \in BOOLEAN : GC_setYawAngle(a, w) /\ UNCHANGED <<progVars, wireVars>>
    \/ \E st \in ShootArgs, w \in BOOLEAN : GC_setShootStatus(st, w) /\ UNCHANGED <<progVars, wireVars>>
    \/ \E a \in AngleArgs, w \in BOOLEAN : GC_setIdleAngle(a, w) /\ UNCHANGED <<progVars, wireVars>>
    \/ \E w \in BOOLEAN : GC_triggerShoot(w) /\ UNCHANGED <<progVars, wireVars>>
    \/ \E w \in BOOLEAN : GC_stopShoot(w) /\ UNCHANGED <<progVars, wireVars>>
    \/ \E w \in BOOLEAN : GC_sendCommand(w) /\ UNCHANGED <<progVars, wireVars>>

SpecApi == Init /\ [][NextApi]_vars

\* The transport driven call by call.
NextSerial ==
    \/ \E port \in AllPorts, result \in OpenResults, relock \in {"hang", "proceed"} :
          SC_open(port, result, relock)
    \/ SC_close
    \/ \E w \in BOOLEAN : SC_send(w)
    \/ \E n \in ReadResults : SC_receive(n)
    \/ \E n \in PendingBytes, ok \in BOOLEAN : SC_available(n, ok)
    \/ SC_flush

SpecSerial == Init /\ [][NextSerial]_vars

\* main opens and later closes the transport while the two command senders
\* and the telemetry thread call into it.
NextWire ==
    \/ \E th \in WireThreads, op \in {"open", "close", "send", "available", "receive", "flush"} :
          W_Enter(th, op)
    \/ \E port \in CallerPorts, result \in OpenResults : W_Open(port, result)
    \/ W_Close
    \/ \E th \in Senders, target \in 0..FrameChunks : W_Send(th, target)
    \/ \E th \in Senders : W_WritePiece(th)
    \/ \E th \in Senders : W_WriteReturn(th)
    \/ \E bytes \in ReadResults : W_Read(bytes)
    \/ \E th \in WireThreads : W_Leave(th)

SpecWire == Init /\ [][NextWire]_vars

\* The receive loop and a reader of the snapshot.
NextTelemetry ==
    \/ R_Start
    \/ R_Stop
    \/ R_Exit
    \/ \E available \in PendingBytes : R_Available(available)
    \/ \E received \in BOOLEAN : R_Receive(received)
    \/ R_ParseFailed
    \/ \E frame \in StatusFrames : R_Parsed(frame)
    \/ R_Lock
    \/ R_Store
    \/ R_Unlock
    \/ G_Lock
    \/ G_Load
    \/ G_Unlock

SpecTelemetry == Init /\ [][NextTelemetry]_vars

\* The patrol thread alone, with no target ever locked, long enough to sweep
\* from the centre to the left limit, across to the right limit and back up.
NextPatrol ==
    \/ SelectTargetType({1})
    \/ Initialize
    \/ StartThreads
    \/ P_While(MaxSweepSteps)
    \/ P_If
    \/ P_Step
    \/ P_Publish
    \/ SendCommandLoad("patrol")
    \/ SendCommandWrite("patrol")

SpecPatrol == Init /\ [][NextPatrol]_vars

\* The patrol thread alone and without end: nPatrol counts the steps since the
\* last arrival at a limit, and the arrivals are counted in call.
NoSweep == [op |-> "sweep", left |-> 0, right |-> 0]
SweepLog == IF call.op = "sweep" THEN call ELSE NoSweep

AtLimitUncounted ==
    pc.patrol = "p_while" /\ nPatrol > 1 /\ currentAngle \in {LeftLimit, RightLimit}

S_Lap ==
    /\ AtLimitUncounted
    /\ nPatrol' = 1
    /\ call' = IF currentAngle = LeftLimit
               THEN [SweepLog EXCEPT !.left = Min(@ + 1, 2)]
               ELSE [SweepLog EXCEPT !.right = Min(@ + 1, 2)]
    /\ UNCHANGED <<pc, g_running, g_targetLock, g_shooting, g_gimbalMutex,
                   g_currentYawAngle, ctlVars, gimbalVars, currentAngle,
                   direction, timeVars, bestDet, newAngle, imageCenterX,
                   sendVars, histVars, nTicks, m_port, handles, m_handle,
                   wireVars, statusVars>>

NextSweep ==
    \/ SelectTargetType({1})
    \/ Initialize
    \/ StartThreads
    \/ ~AtLimitUncounted /\ P_While(MaxSweepSteps)
    \/ P_If
    \/ P_Step
    \/ P_Publish
    \/ SendCommandLoad("patrol")
    \/ SendCommandWrite("patrol")
    \/ S_Lap

SpecSweep == Init /\ [][NextSweep]_vars /\ WF_vars(NextSweep)

\* ==================================================================== claims

\* --- C1 ------------------------------------------------------------------
\* C1: close() of the initialized actuator first stops and joins the telemetry
\* thread, then sets shoot to 0 and writes a command frame carrying shoot = 0,
\* and only then closes the transport: while the shoot frame is prepared the
\* receive thread has ended and the port is open, the port is closed by no
\* step but the last of close(), and when it is closed the last command frame
\* written is the one of close(), with shoot = 0, whichever loop wrote before
\* (when initialize failed, no command frame was ever written).
CloseFrame == [by |-> "main", shoot |-> 0]

InSequence(th) ==
    IF th = "patrol" THEN pc.patrol \in {"p_send", "p_pub"}
    ELSE pc.track \in {"t_pic_send1", "t_pic_send2", "t_pic_rel", "t_yaw_send",
                       "t_yaw_rel", "t_trig_send", "t_trig_rel", "t_poff_send",
                       "t_poff_rel", "t_foff_send", "t_foff_rel", "t_lost_send",
                       "t_lost_rel", "t_exit_send", "t_exit_rel"}

\* the fields loaded so far into the frame of th are those of the commanded
\* state as it is now
FrameIsSnapshot(th) ==
    /\ ld[th] >= 1 => frm[th].pic = m_picAngle
    /\ ld[th] >= 2 => frm[th].yaw = m_yawAngle
    /\ ld[th] >= 3 => frm[th].shoot = m_shootStatus
    /\ ld[th] >= 4 => frm[th].idle = m_idleAngle

\* C2: under every interleaving, each command frame, while it is built and at
\* the moment it is written, carries the pitch, yaw, shoot and idle the
\* commanded state holds together at that instant, and the patrol loop and the
\* tracking loop are never both inside a set-then-transmit sequence.
C2_ConsistentFrames ==
    /\ \A th \in Threads : FrameIsSnapshot(th)
    /\ ~(InSequence("patrol") /\ InSequence("track"))

\* the tracking loop is about to write its fire frame while the patrol loop,
\* having written before, waits for the lock to make its next step
C2_Witness ==
    /\ pc.track = "t_trig_send"
    /\ ld.track = 4
    /\ frm.track.shoot = 1
    /\ pc.patrol = "p_step"
    /\ nPatrol >= 1

\* --- C3 ------------------------------------------------------------------
\* C3: the patrol loop writes a yaw command only while the target-lock flag is
\* false at the moment of the write.
C3_PatrolWritesOnlyUnlocked ==
    (pc.patrol = "p_send" /\ ld.patrol = 4 /\ m_isOpen) => ~g_targetLock

\* --- C4 ------------------------------------------------------------------
\* C4: while locked, the lock is released only when the ticks without a
\* qualifying candidate have gone on for more than 1.0 s, counted from the
\* first empty tick after the last tick with a candidate.
C4_ReleaseOnlyAfterTimeout ==
    [][(g_targetLock /\ ~g_targetLock') => absence > 20]_vars

\* --- C5 ------------------------------------------------------------------
\* a tick has just found the absence to have lasted more than 1.0 s
AbsenceOver == pc.track = "t_key" /\ absence > 20

PatrolIdle == pc.patrol \in {"p_while", "p_if", "p_step"}

\* C5: at the end of every tick at which no qualifying candidate has been seen
\* for more than 1.0 s the lock is not held, and from there the patrol loop,
\* as long as the program runs and no new lock is taken, goes on to write a
\* further yaw command.
C5_LossRelease ==
    /\ [](AbsenceOver => ~g_targetLock)
    /\ \A k \in 0..(MaxPatrolSteps - 1) :
          (AbsenceOver /\ ~g_targetLock /\ g_running /\ PatrolIdle /\ nPatrol = k)
              ~> \/ pc.patrol = "p_pub" /\ nPatrol = k + 1 /\ lastWrite.by = "patrol"
                 \/ g_targetLock
                 \/ ~g_running

\* the tick that finds the absence over 1.0 s releases a lock held until then,
\* with the patrol loop between two steps
C5_Witness ==
    /\ AbsenceOver
    /\ tick.locked
    /\ ~g_targetLock
    /\ g_running
    /\ PatrolIdle
    /\ nPatrol < MaxPatrolSteps

\* --- C6 ------------------------------------------------------------------
\* the end of a tick whose winning candidate is centred
CenteredTickEnd == pc.track = "t_key" /\ bestDet # NoDet /\ centerStable

\* C6: on a tick whose winning candidate is centred, shoot goes 0 -> 1 iff it
\* was 0 and at least 0.2 s had elapsed since the last pulse edge, goes 1 -> 0
\* iff it was 1 and at least 0.4 s had elapsed, is unchanged otherwise, and
\* the time of the last pulse edge is reset exactly on those two transitions.
C6_DutyCycle ==
    CenteredTickEnd =>
        /\ (tick.shoot = 0 /\ m_shootStatus = 1) <=> (tick.shoot = 0 /\ tick.pulse >= 4)
        /\ (tick.shoot = 1 /\ m_shootStatus = 0) <=> (tick.shoot = 1 /\ tick.pulse >= 8)
        /\ elapsedSincePulse = IF m_shootStatus # tick.shoot THEN 0 ELSE tick.pulse
        /\ g_shooting <=> m_shootStatus = 1

\* a centred tick has just switched the fire signal off, 0.4 s after its edge
C6_Witness ==
    /\ CenteredTickEnd
    /\ tick.shoot = 1
    /\ tick.pulse >= 8
    /\ m_shootStatus = 0
    /\ elapsedSincePulse = 0

\* --- C7 ------------------------------------------------------------------
\* the end of a tick within 1.0 s of a lock since which every tick had a
\* centred candidate
CenteredRun ==
    /\ pc.track = "t_key"
    /\ g_targetLock
    /\ run.centered
    /\ elapsedSinceLock < 20

C8_ForcedOff ==
    pc.track = "t_key" =>
        /\ (bestDet = NoDet \/ ~centerStable) => m_shootStatus = 0 /\ tick.sent = 0
        /\ m_shootStatus = 1 => g_targetLock /\ bestDet # NoDet /\ centerStable

\* a tick that began firing ends off centre with the signal forced off
C8_Witness ==
    /\ pc.track = "t_key"
    /\ bestDet # NoDet
    /\ ~centerStable
    /\ tick.shoot = 1
    /\ m_shootStatus = 0
    /\ tick.sent = 0

\* --- C9 ------------------------------------------------------------------
\* the end of a tick that found a centred candidate while no lock was held
AcquiringCenteredTick ==
    pc.track = "t_key" /\ ~tick.locked /\ bestDet # NoDet /\ centerStable

PitchOfClass(classId) ==
    <<6000, 8500, 9500, 10000, 14500, 8000, 10000, 14000, 18000, 20000>>[classId + 1]

InitializeSucceeded ==
    call.op = "initialize" /\ ~call.wasInit /\ call.ret = "true"

\* C11 (as stated): a successful initialize() writes the rate-configuration
\* frame and then a command frame whose shoot field is 0, and the telemetry
\* thread runs only once that command frame has been written.  The code calls
\* sendCommand() while m_initialized is still false, so the call returns
\* false and only the rate frame is written.
C11_InitSequence ==
    InitializeSucceeded =>
        /\ Len(call.wrote) = 2
        /\ call.wrote[1] = RateFrame
        /\ call.wrote[2].kind = "cmd"
        /\ call.wrote[2].shoot = 0
        /\ pc.recv = "r_poll"

\* ---------------------------------------------------------------- C12
FirstInitialize == call.op = "initialize" /\ ~call.wasInit

NoCandidateOpens ==
    \A i \in 1..Len(call.tried) : call.tried[i] \notin call.openable

\* C12: initialize() on an actuator that is not initialized returns false
\* exactly when no candidate port opens or the rate-configuration frame is
\* not sent; after every such failure the actuator is uninitialized, the
\* transport is closed and holds no descriptor, no telemetry thread runs and
\* no command frame was written.
C12_InitFailure ==
    FirstInitialize =>
        /\ call.ret = "false" <=> (NoCandidateOpens \/ ~call.writeOk)
        /\ call.ret = "false" =>
              /\ ~m_initialized
              /\ ~m_isOpen
              /\ handles = {}
              /\ ~m_running
              /\ pc.recv \in {"off", "r_done"}
              /\ \A i \in 1..Len(call.wrote) : call.wrote[i].kind # "cmd"

\* a port opened and the rate frame was cut short
C12_Witness ==
    /\ FirstInitialize
    /\ call.ret = "false"
    /\ ~NoCandidateOpens
    /\ call.wrote = <<ShortWrite>>

\* ---------------------------------------------------------------- C13
\* C13: initialize() tries the candidate ports in list order, the caller's
\* port first; every port tried before the last one failed to open, the last
\* one tried either opens or is the end of the list, and after a successful
\* call exactly that port is open.
C13_FirstMatchWins ==
    FirstInitialize =>
        LET ports == CandidatePorts(call.port)
            n == Len(call.tried)
        IN  /\ n \in 1..Len(ports)
            /\ call.tried[1] = call.port
            /\ \A i \in 1..n : call.tried[i] = ports[i]
            /\ \A i \in 1..(n - 1) : call.tried[i] \notin call.openable
            /\ call.tried[n] \in call.openable \/ n = Len(ports)
            /\ call.ret = "true" =>
                  /\ call.tried[n] \in call.openable
                  /\ m_isOpen
                  /\ m_port = call.tried[n]
                  /\ handles = {call.tried[n]}

\* the third candidate is the first that opens, later ones would open too
C13_Witness ==
    /\ FirstInitialize
    /\ call.ret = "true"
    /\ Len(call.tried) = 3
    /\ \E i \in 4..6 : CandidatePorts(call.port)[i] \in call.openable

\* ---------------------------------------------------------------- C14
ClampedAsStated(a) ==
    LET low == IF a < 30000 THEN a ELSE 30000
    IN  IF low > 0 THEN low ELSE 0

\* C14: right after setPicAngle(a) the pitch read back is max(0, min(30000, a)),
\* and right after setYawAngle(a) the yaw read back is max(0, min(30000, a)),
\* whether or not the actuator is initialized and whether or not the frame
\* was sent.
C14_ClampReadBack ==
    /\ call.op = "setPicAngle" => getCurrentPicAngle = ClampedAsStated(call.arg)
    /\ call.op = "setYawAngle" => getCurrentYawAngle = ClampedAsStated(call.arg)

\* an angle above the range, set on an initialized actuator whose write failed
C14_Witness ==
    /\ call.op = "setYawAngle"
    /\ call.arg > 30000
    /\ call.wasInit
    /\ call.ret = "false"
    /\ getCurrentYawAngle = 30000

\* ---------------------------------------------------------------- C15
\* C15 (as stated): after any sequence of setter, trigger, stop, initialize
\* and close calls the commanded pitch, yaw and idle lie in 0..30000 and the
\* commanded shoot is 0 or 1.  setShootStatus stores its uint16_t argument
\* as it is, so a call with 2 leaves shoot = 2.
C15_CommandRange ==
    /\ m_picAngle \in 0..30000
    /\ m_yawAngle \in 0..30000
    /\ m_idleAngle \in 0..30000
    /\ m_shootStatus \in {0, 1}

\* ---------------------------------------------------------------- C16
\* the calls that return what sendCommand returned
ReturnsSendCommand ==
    call.op \in {"sendCommand", "setPicAngle", "setYawAngle", "setShootStatus",
                 "setIdleAngle"}

FrameOfState ==
    [kind |-> "cmd", pic |-> m_picAngle % 65536, yaw |-> m_yawAngle % 65536,
     shoot |-> m_shootStatus, idle |-> m_idleAngle % 65536]

\* C16: sendCommand() returns false exactly when the actuator is not
\* initialized or the write is not complete; it never changes pitch, yaw,
\* shoot or idle, so what a setter stored just before stays stored; it hands
\* nothing to the transport when the actuator is not initialized; and a
\* sendCommand that succeeds writes one frame holding exactly the stored state.
C16_SendCommandFailure ==
    /\ ReturnsSendCommand =>
          /\ call.ret = "false" <=> (~call.wasInit \/ ~call.writeOk)
          /\ ~call.wasInit => call.wrote = << >>
          /\ call.ret = "true" => call.wrote = <<FrameOfState>>
    /\ call.op = "sendCommand" => call.kept
    /\ (call.op = "setYawAngle" /\ call.ret = "false") =>
          m_yawAngle = clampAngle(call.arg)
    /\ (call.op = "setPicAngle" /\ call.ret = "false") =>
          m_picAngle = clampAngle(call.arg)
    /\ (call.op = "setIdleAngle" /\ call.ret = "false") =>
          m_idleAngle = clampAngle(call.arg)
    /\ (call.op = "setShootStatus" /\ call.ret = "false") =>
          m_shootStatus = call.arg

\* a sendCommand that succeeds while a setter's value was still unsent
C16_Witness ==
    /\ call.op = "sendCommand"
    /\ call.ret = "true"
    /\ call.wasStale
    /\ call.wrote = <<FrameOfState>>

\* ---------------------------------------------------------------- C18
\* C18: a close() releases the descriptor of an open transport with exactly
\* one ::close and leaves the transport closed; a close() of a transport that
\* is not open (closed before, or never opened) makes no system call and
\* changes nothing; on a transport that is not open send and receive return
\* false and available returns 0, all without a system call.  The descriptor
\* obtained by one ::open is never released twice.
C18_CloseIdempotent ==
    /\ call.released <= 1
    /\ m_isOpen => (call.released = 0 /\ m_handle = Fd /\ handles = {m_port})
    /\ ~m_isOpen => (m_handle = -1 /\ handles = {})
    /\ (call.op = "close" /\ call.wasOpen) =>
          (call.os = <<"close">> /\ ~m_isOpen /\ call.released = 1)
    /\ (call.op = "close" /\ ~call.wasOpen) => call.os = << >>
    /\ (call.op \in {"send", "receive"} /\ ~call.wasOpen) =>
          (call.ret = "false" /\ call.os = << >>)
    /\ (call.op = "available" /\ ~call.wasOpen) =>
          (call.count = 0 /\ call.os = << >>)

\* a second close: the transport was opened, its descriptor released once,
\* and this close found it closed
C18_Witness ==
    /\ call.op = "close"
    /\ ~call.wasOpen
    /\ call.released = 1
    /\ call.os = << >>
    /\ m_handle = -1

\* ---------------------------------------------------------------- C17
\* the threads that are inside an operation of the transport
InsideTransport == {th \in WireThreads : io[th].pc # "idle"}

\* the pieces of one frame lie next to each other on the line
NotInterleaved ==
    \A i \in 1..Len(wire) : \A k \in i..Len(wire) :
        wire[i] = wire[k] => \A j \in i..k : wire[j] = wire[i]

SendReturned(th) == io[th].pc = "idle" /\ io[th].calls > 0

\* C17: at most one thread is inside an operation of the transport (open,
\* close, send, available, receive, flush), the pieces of two frames sent at the
\* same time are never mixed on the line, and a send returns false exactly
\* when it found the link not open or its ::write was short.
C17_TransportExclusive ==
    /\ Cardinality(InsideTransport) <= 1
    /\ NotInterleaved
    /\ \A th \in Senders :
          (io[th].pc = "out" \/ SendReturned(th)) =>
              (io[th].ret = FALSE <=>
                  (~io[th].sawOpen \/ io[th].written < FrameChunks))

\* both senders have put a whole frame on the line and the telemetry thread
\* has read in between
C17_Witness ==
    /\ \A th \in Senders : SendReturned(th) /\ io[th].ret
    /\ io["recv"].calls > 0
    /\ Len(wire) = 2 * FrameChunks

\* ---------------------------------------------------------------- C19
ReaderHasSnapshot == gs.pc = "g_unlock" \/ (gs.pc = "idle" /\ gs.calls > 0)

\* a poll that ends without a store: too few bytes, receive failed, parse failed
PollFails ==
    /\ pc.recv \in {"r_poll", "r_receive", "r_parse"}
    /\ pc'.recv = "r_poll"
    /\ rx'.last \in {"short", "receive_failed", "parse_failed"}
    /\ rx'.last # rx.last \/ rx'.polls # rx.polls

\* C19: what getReceivedStatus returns is (0,0,0,0) or the four values of one
\* parsed frame, the last one stored when the reader held the lock, never
\* fields of two frames; and a poll that finds fewer than 15 bytes, whose
\* receive fails or whose parse fails leaves the snapshot as it was and puts
\* the loop back at its next poll.
C19_SnapshotIntegrity ==
    /\ [](ReaderHasSnapshot => gs.out \in {ZeroStatus} \cup StatusFrames)
    /\ [](gs.pc = "g_unlock" => gs.out = rx.stored)
    /\ [][PollFails => (m_received' = m_received /\ rx'.stored = rx.stored)]_vars

\* the reader returns a stored frame after a later poll failed to parse
C19_Witness ==
    /\ ReaderHasSnapshot
    /\ gs.calls = 2
    /\ gs.out \in StatusFrames \ Telemetry
    /\ rx.last = "parse_failed"
    /\ rx.polls = 3

\* ---------------------------------------------------------------- C20
\* the patrol loop has commanded a yaw
PatrolCommanded == nPatrol > 0

\* the angle the step would reach if nothing cut it
Uncut == currentAngle + CurrentSpeed(currentAngle, direction) * direction

PatrolTick == nPatrol' = nPatrol + 1

\* C20: every yaw the patrol loop commands lies in 2000..28000; the direction
\* turns to decreasing in exactly the ticks in which the yaw becomes 28000 and
\* to increasing in exactly the ticks in which it becomes 2000; a step that
\* would pass a limit lands on the limit.
C20_PatrolBounds ==
    /\ [](currentAngle \in 2000..28000)
    /\ [](PatrolCommanded => m_yawAngle = currentAngle)
    /\ [][PatrolTick =>
            /\ (direction = 1 /\ direction' = -1) <=> currentAngle' = 28000
            /\ (direction = -1 /\ direction' = 1) <=> currentAngle' = 2000
            /\ Uncut > 28000 => currentAngle' = 28000
            /\ Uncut < 2000 => currentAngle' = 2000
            /\ Uncut \in 2000..28000 => currentAngle' = Uncut]_vars
    /\ [][~PatrolTick => (direction' = direction /\ currentAngle' = currentAngle)]_vars

\* the sweep has turned at the left limit, come down, and a step that would
\* have passed the right limit has just been cut to 2000 and sent
C20_Witness ==
    /\ pc.patrol = "p_pub"
    /\ currentAngle = 2000
    /\ direction = 1
    /\ m_yawAngle = 2000
    /\ lastWrite.by = "patrol"

\* ---------------------------------------------------------------- C21
\* the step of the claim: scaled within 500 of either limit, else 50
StatedStep(angle) ==
    IF 28000 - angle < 500 THEN Max(30, (50 * (28000 - angle)) \div 500)
    ELSE IF angle - 2000 < 500 THEN Max(30, (50 * (angle - 2000)) \div 500)
    ELSE 50

CutToLimits(a) == IF a >= 28000 THEN 28000 ELSE IF a <= 2000 THEN 2000 ELSE a

\* C21 (as stated): on every patrol tick the yaw moves, in the direction of the
\* sweep, by max(30, floor(50 * d / 500)) when it is less than 500 from a
\* limit at distance d, whether it approaches that limit or leaves it, and by
\* 50 otherwise (the result cut to the limits).  The code scales the step only
\* while approaching: the tick after a reversal moves by 50.
C21_SpeedProfile ==
    [][PatrolTick =>
          currentAngle' = CutToLimits(currentAngle + StatedStep(currentAngle) * direction)]_vars

\* ---------------------------------------------------------------- C22
\* positions of the frame's candidates that lie in the selected colour band
InBand(frame) ==
    {i \in 1..Len(frame) :
        IF g_targetType = "red" THEN frame[i].classId \in 5..9
        ELSE frame[i].classId \in 0..4}

\* the winner of the claim: highest confidence in the band, the earliest of equals
StatedWinner(frame) ==
    IF InBand(frame) = {} THEN NoDet
    ELSE frame[CHOOSE i \in InBand(frame) :
                  \A j \in InBand(frame) :
                      \/ frame[j].confidence < frame[i].confidence
                      \/ (frame[j].confidence = frame[i].confidence /\ i <= j)]

\* the detection thread is between the choice of the best detection and waitKey
TickInProgress ==
    pc.track \notin {"off", "t_while", "t_exit", "t_exit_send", "t_exit_rel", "t_done"}

\* C22: in every tick the candidate the tick works with is the candidate of
\* the selected band with the highest confidence, the first of equals in the
\* order of the frame; a frame with no candidate in the band is a tick with no
\* qualifying candidate (it goes the way of an empty frame, towards the loss
\* of the target), whatever lies outside the band.
C22_TargetSelection ==
    TickInProgress =>
        /\ bestDet = StatedWinner(tick.frame)
        /\ InBand(tick.frame) = {} <=> absence >= 0
        /\ InBand(tick.frame) = {} =>
              pc.track \notin {"t_lock", "t_pic", "t_pic_rel", "t_yaw_read", "t_yaw",
                               "t_yaw_send", "t_yaw_rel", "t_fire", "t_trig_send",
                               "t_trig_rel", "t_poff_send", "t_poff_rel",
                               "t_foff_send", "t_foff_rel"}

\* blue selected: two blue candidates of equal confidence and a red one; the
\* first blue one wins
C22_Witness ==
    /\ g_targetType = "blue"
    /\ tick.frame = <<Det(2, 60, 499, 579), Det(3, 60, 600, 680), Det(8, 30, 701, 781)>>
    /\ bestDet = Det(2, 60, 499, 579)
    /\ pc.track = "t_key"

\* ---------------------------------------------------------------- C23
\* the tick has a qualifying candidate and its lock block has run
CandidateTickLocked ==
    TickInProgress /\ bestDet # NoDet /\ pc.track # "t_lock"

LockBlock == pc.track = "t_lock" /\ pc'.track # "t_lock"

\* C23: a tick with a qualifying candidate that finds no lock (the first such
\* tick after the start among them) sets the lock in that tick, restarts the
\* lock time and leaves the firing flag cleared; and in every tick with a
\* qualifying candidate the lock is set from the lock block to the tick's end.
C23_LockAcquisition ==
    /\ [](CandidateTickLocked => g_targetLock)
    /\ [][(LockBlock /\ ~g_targetLock) =>
              (g_targetLock' /\ elapsedSinceLock' = 0 /\ ~g_shooting')]_vars
    /\ [][(LockBlock /\ g_targetLock) =>
              (g_targetLock' /\ elapsedSinceLock' = elapsedSinceLock)]_vars

\* the first tick of the thread has a candidate off centre: the lock is set,
\* the lock time is zero, nothing fires
C23_Witness ==
    /\ nTicks = 1
    /\ CandidateTickLocked
    /\ ~centerStable
    /\ ~tick.locked
    /\ g_targetLock
    /\ elapsedSinceLock = 0
    /\ ~g_shooting

\* ---------------------------------------------------------------- C24
\* the detection thread stores a yaw: setYawAngle(newAngle) in its yaw block
TrackerYawStore == pc.track = "t_yaw" /\ pc'.track = "t_yaw_send"

\* the step of the claim, from the yaw commanded just before
StatedNudge(yaw, deviation) ==
    LET to == IF deviation > 0 THEN yaw - 25 ELSE yaw + 25
    IN  IF to < 0 THEN 0 ELSE IF to > 30000 THEN 30000 ELSE to

\* a step of the detection thread
TrackerStep == pc'.track # pc.track

\* C24 (as stated): in a tick whose winner deviates by at most 100 px the
\* detection thread leaves the commanded yaw alone; when the deviation exceeds
\* 100 px it moves the commanded yaw by 25 from the value commanded just
\* before, down for a positive deviation and up for a negative one, within
\* 0..30000.  The code steps from g_currentYawAngle, which starts at 15000
\* while the commanded yaw starts at 20000, and which is read before
\* g_gimbalMutex is taken.
C24_CenteringStep ==
    /\ [][TrackerYawStore => m_yawAngle' = StatedNudge(m_yawAngle, xDeviation)]_vars
    /\ [][(TrackerStep /\ TickInProgress /\ bestDet # NoDet /\ centerStable) =>
              m_yawAngle' = m_yawAngle]_vars

\* ---------------------------------------------------------------- C25
\* the detection, patrol and telemetry threads have ended
WorkersJoined == pc.track = "t_done" /\ pc.patrol = "p_done"
AllThreadsDone == WorkersJoined /\ pc.recv = "r_done"

\* the telemetry thread was started and has been told to stop
TelemetryStopped == pc.recv # "off" /\ ~m_running

\* the transport was opened and is closed again
TransportClosed == pc.recv # "off" /\ ~m_isOpen

\* C25: once g_running is cleared no new tick of the detection loop begins and
\* the patrol loop leaves at its next loop test; the telemetry thread is told
\* to stop only after both threads have ended, and the transport is closed
\* only after the telemetry thread has ended; under fair scheduling a cleared
\* g_running always leads to all three threads having ended.
C25_CancellationTerminates ==
    /\ [](TelemetryStopped => WorkersJoined)
    /\ [](TransportClosed => AllThreadsDone)
    /\ [][~g_running => nTicks' = nTicks]_vars
    /\ [][(~g_running /\ pc.patrol = "p_while" /\ pc'.patrol # "p_while") =>
              pc'.patrol = "p_done"]_vars
    /\ (~g_running ~> AllThreadsDone)

\* everything has ended after a quit that found the patrol loop inside a step
C25_Witness ==
    /\ ~g_running
    /\ AllThreadsDone
    /\ pc.main = "m_done"
    /\ ~m_isOpen
    /\ nPatrol > 0
    /\ nTicks > 0

\* ---------------------------------------------------------------- C26
\* a call of close() on an actuator that is not initialized
CloseWhenNotInitialized == call'.op = "close" /\ ~m_initialized

\* C26: close() on an actuator that is not initialized (closed before, never
\* initialized, or after a failed initialize) writes no frame, leaves the
\* transport (open flag, descriptor, port, open descriptors) and the telemetry
\* thread (m_running, the thread's position) as they were, and leaves pitch,
\* yaw, fire and idle unchanged.
C26_CloseIdempotent ==
    [][CloseWhenNotInitialized =>
          /\ call'.wrote = << >>
          /\ UNCHANGED <<m_isOpen, m_handle, m_port, handles>>
          /\ UNCHANGED <<m_running, pc>>
          /\ UNCHANGED <<gimbalVars, m_initialized>>]_vars

\* a second close(): the first one ended the telemetry thread, and a fire
\* status stored since then is still there after the second
C26_Witness ==
    /\ call.op = "close"
    /\ ~call.wasInit
    /\ pc.recv = "r_done"
    /\ ~m_isOpen
    /\ call.wrote = << >>
    /\ m_shootStatus = 1

\* close() on an actuator that was never initialized
C26_NeverInitialized ==
    /\ call.op = "close"
    /\ ~call.wasInit
    /\ pc.recv = "off"
    /\ m_port = ""
    /\ m_shootStatus = 1

\* ---------------------------------------------------------------- C27
\* the byte at an offset of the code
At(frame, offset) == frame[offset + 1]

\* the little-endian bytes of a value, least significant first
LittleEndian(value, n) == [k \in 1..n |-> (value \div (256 ^ (k - 1))) % 256]

\* the bytes of a frame from one offset to another
Span(frame, from, to) == SubSeq(frame, from + 1, to + 1)

\* C27: every frame built is 30 bytes: 55 AA 1E 01, 01 00 00 00, 0A 00 00 00,
\* 00, the CAN id in four little-endian bytes at offsets 13-16, 00 08 00 00,
\* pitch, yaw, fire and idle as little-endian 16-bit values at offsets 21-22,
\* 23-24, 25-26 and 27-28, and 88 at offset 29.
C27_CommandFrameLayout ==
    call.op = "buildUSBCANFrame" =>
        /\ Len(call.frame) = 30
        /\ Span(call.frame, 0, 3) = <<85, 170, 30, 1>>
        /\ Span(call.frame, 4, 7) = <<1, 0, 0, 0>>
        /\ Span(call.frame, 8, 11) = <<10, 0, 0, 0>>
        /\ At(call.frame, 12) = 0
        /\ Span(call.frame, 13, 16) = LittleEndian(call.canId, 4)
        /\ Span(call.frame, 17, 20) = <<0, 8, 0, 0>>
        /\ Span(call.frame, 21, 22) = LittleEndian(call.pic, 2)
        /\ Span(call.frame, 23, 24) = LittleEndian(call.yaw, 2)
        /\ Span(call.frame, 25, 26) = LittleEndian(call.shoot, 2)
        /\ Span(call.frame, 27, 28) = LittleEndian(call.idle, 2)
        /\ At(call.frame, 29) = 136

\* a frame whose id and fields all have two different bytes
C27_Witness ==
    /\ call.op = "buildUSBCANFrame"
    /\ call.canId = 305419896
    /\ call.pic = 11000
    /\ call.yaw = 20000
    /\ call.shoot = 513
    /\ call.idle = 43981
    /\ Span(call.frame, 13, 16) = <<120, 86, 52, 18>>
    /\ Span(call.frame, 21, 28) = <<248, 42, 32, 78, 1, 2, 205, 171>>

\* ---------------------------------------------------------------- C28
\* the default command: pitch 11000, yaw 20000, fire 0, idle 0, id 0x601
DefaultCommandBuilt ==
    /\ call.op = "buildUSBCANFrame"
    /\ call.canId = CommandCanId
    /\ call.pic = InitialPic
    /\ call.yaw = InitialYaw
    /\ call.shoot = 0
    /\ call.idle = 0

\* C28 (as stated): the default command carries 01 06 00 00 at offsets 13-16,
\* 2B 2B at offsets 21-22 and 20 4E at offsets 23-24.
C28_DefaultCommandBytes_Stated ==
    DefaultCommandBuilt =>
        /\ Span(call.frame, 13, 16) = <<1, 6, 0, 0>>
        /\ Span(call.frame, 21, 22) = <<43, 43>>
        /\ Span(call.frame, 23, 24) = <<32, 78>>

\* C28 (amended): the default command carries 01 06 00 00 at offsets 13-16,
\* F8 2A (11000 = 0x2AF8) at offsets 21-22 and 20 4E (20000 = 0x4E20) at
\* offsets 23-24.
C28_DefaultCommandBytes ==
    DefaultCommandBuilt =>
        /\ Span(call.frame, 13, 16) = <<1, 6, 0, 0>>
        /\ Span(call.frame, 21, 22) = <<248, 42>>
        /\ Span(call.frame, 23, 24) = <<32, 78>>

C28_Witness ==
    /\ DefaultCommandBuilt
    /\ Len(call.frame) = 30
    /\ At(call.frame, 21) = 248

\* ---------------------------------------------------------------- C29
\* the 16-bit little-endian value at offsets 3-4 of a buffer that holds them
IdField(data) == At(data, 3) + 256 * At(data, 4)

\* C29: filterCANID answers true exactly when the buffer has at least 15
\* bytes and the little-endian 16-bit value at offsets 3-4 equals the low 16
\* bits of the target id; on a buffer shorter than 15 bytes it answers false.
C29_FilterCanId ==
    call.op = "filterCANID" =>
        /\ call.ret <=> (/\ Len(call.data) >= 15
                         /\ IdField(call.data) = call.targetId % 65536)
        /\ Len(call.data) < 15 => ~call.ret

\* a 15-byte buffer accepted for a target id with bits above the sixteenth
C29_Witness ==
    /\ call.op = "filterCANID"
    /\ Len(call.data) = 15
    /\ call.targetId = 67583
    /\ call.ret

\* a 14-byte buffer with the right id at offsets 3-4, refused
C29_ShortRefused ==
    /\ call.op = "filterCANID"
    /\ Len(call.data) = 14
    /\ IdField(call.data) = call.targetId
    /\ ~call.ret

\* ---------------------------------------------------------------- C30
\* C30: parseCAN07FF succeeds exactly when the buffer has at least 15 bytes
\* and filterCANID accepts it for 0x07FF; on success pic, yaw, shoot and idle
\* are byte 8 | byte 7 << 8, byte 10 | byte 9 << 8, byte 12 | byte 11 << 8 and
\* byte 14 | byte 13 << 8.
C30_ParseStatus ==
    call.op = "parseCAN07FF" =>
        /\ call.out.ret <=> (/\ Len(call.data) >= 15
                             /\ filterCANID(call.data, 2047))
        /\ call.out.ret =>
              /\ call.out.pic = At(call.data, 8) + 256 * At(call.data, 7)
              /\ call.out.yaw = At(call.data, 10) + 256 * At(call.data, 9)
              /\ call.out.shoot = At(call.data, 12) + 256 * At(call.data, 11)
              /\ call.out.idle = At(call.data, 14) + 256 * At(call.data, 13)

\* a buffer of eight different data bytes, parsed
C30_Witness ==
    /\ call.op = "parseCAN07FF"
    /\ call.out.ret
    /\ Span(call.data, 7, 14) = <<1, 2, 3, 4, 5, 6, 7, 8>>
    /\ call.out.pic = 258
    /\ call.out.yaw = 772
    /\ call.out.shoot = 1286
    /\ call.out.idle = 1800

\* ---------------------------------------------------------------- C31
ParseCalls == {"parseUSBCANFrame", "parseCAN07FF", "parseCAN7FE"}

\* the length and the sentinel bytes each parse function asks for
WellFormed(op, data) ==
    CASE op = "parseUSBCANFrame" ->
            /\ Len(data) >= 30
            /\ At(data, 0) = 85 /\ At(data, 1) = 170 /\ At(data, 29) = 136
      [] op = "parseCAN07FF" ->
            Len(data) >= 15 /\ At(data, 3) = 255 /\ At(data, 4) = 7
      [] op = "parseCAN7FE" ->
            Len(data) >= 13 /\ At(data, 3) = 254 /\ At(data, 4) = 7

\* the outputs a parse call is given
OutputsOf(op) ==
    CASE op = "parseUSBCANFrame" -> {"canId", "data1", "data2", "data3", "data4"}
      [] op = "parseCAN07FF" -> {"pic", "yaw", "shoot", "idle"}
      [] op = "parseCAN7FE" -> {"data1", "data2", "data3", "data4"}

\* a parse call fails on every length or sentinel mismatch, and a failed call
\* leaves every output as the caller had it
C31_FailureLeavesOutputs ==
    call.op \in ParseCalls =>
        /\ call.out.ret <=> WellFormed(call.op, call.data)
        /\ ~call.out.ret =>
              \A o \in OutputsOf(call.op) : call.out[o] = call.before[o]

\* C31 (as stated): every parse function fails on any length or sentinel
\* mismatch and then leaves its outputs unchanged, and no call assigns only
\* some of its outputs.  parseUSBCANFrame, when it succeeds, assigns canId
\* and none of data1..data4.
C31_ParseFailurePolicy ==
    /\ C31_FailureLeavesOutputs
    /\ call.op \in {"parseUSBCANFrame", "parseCAN7FE"} =>
          call.out.written \in {{}, OutputsOf(call.op)}

\* ---------------------------------------------------------------- C40
DataOutputs == {"data1", "data2", "data3", "data4"}

\* C40: parseUSBCANFrame applied to a frame just built succeeds and returns
\* the CAN id the frame was built with; it accepts a frame exactly when the
\* frame has at least 30 bytes, 55 AA at offsets 0-1 and 88 at offset 29; a
\* successful call assigns the CAN id only and leaves the four data outputs
\* as they were.
C40_FramingRoundTrip ==
    /\ call.op = "roundTrip" =>
          /\ call.out.ret
          /\ call.out.canId = call.canId
    /\ call.op \in {"roundTrip", "parseUSBCANFrame"} =>
          /\ call.out.ret <=> (/\ Len(call.data) >= 30
                               /\ Span(call.data, 0, 1) = <<85, 170>>
                               /\ At(call.data, 29) = 136)
          /\ call.out.ret =>
                /\ call.out.written = {"canId"}
                /\ call.out.canId = At(call.data, 13) + 256 * At(call.data, 14)
                                    + 65536 * At(call.data, 15)
                                    + 16777216 * At(call.data, 16)
                /\ \A o \in DataOutputs : call.out[o] = call.before[o]

\* the id 0x12345678 comes back into a variable that held 9
C40_Witness ==
    /\ call.op = "roundTrip"
    /\ call.canId = 305419896
    /\ call.before.canId = 9
    /\ call.out.ret
    /\ call.out.canId = 305419896
    /\ call.out.data1 = 7

\* a 31-byte frame is accepted, a frame with a changed trailer is not
C40_LongerAccepted ==
    call.op = "parseUSBCANFrame" /\ Len(call.data) = 31 /\ call.out.ret

\* ---------------------------------------------------------------- C32
\* the two runs were given the same frames and the same colour up to tick i
SameInputs(i) ==
    \A j \in 1..i :
        /\ TwinLog.first[j].frame = TwinLog.second[j].frame
        /\ TwinLog.first[j].colour = TwinLog.second[j].colour

\* what the control left behind at the end of a logged tick
Decisions(e) == [lock |-> e.lock, fire |-> e.fire, cmd |-> e.cmd,
                 sent |-> e.sent, wrote |-> e.wrote]

\* C32: two runs with the same frames, the same colour and the same tick
\* times end every tick with the same lock, the same firing flag, the same
\* commanded state and the same frame last written, whatever the telemetry
\* thread stored in either run.
C32_TelemetryIndependence ==
    TwinLog.phase = 2 =>
        \A i \in 1..Len(TwinLog.second) :
            SameInputs(i) =>
                Decisions(TwinLog.second[i]) = Decisions(TwinLog.first[i])

\* both runs complete, same frames, one run ended with telemetry stored and
\* the other with none, and the runs locked, moved the yaw and fired
C32_Witness ==
    /\ TwinLog.phase = 2
    /\ Len(TwinLog.second) = MaxTwinTicks
    /\ SameInputs(MaxTwinTicks)
    /\ TwinLog.received # m_received
    /\ \E i \in 1..MaxTwinTicks : TwinLog.second[i].fire
    /\ \E i \in 1..MaxTwinTicks : TwinLog.second[i].cmd[2] # InitialYaw

\* ---------------------------------------------------------------- C33
LoopHead(th) == IF th = "track" THEN "t_while" ELSE "p_while"
LoopEnded(th) ==
    IF th = "track" THEN pc.track \in {"t_exit", "t_exit_send", "t_exit_rel", "t_done"}
    ELSE pc.patrol = "p_done"

\* the step is a fault of the thread
FaultOf(th) == call'.op = "fault" /\ call' # call /\ call'.by = th

\* C33: a fault inside an iteration of the patrol loop or of the detection
\* loop takes the thread to the test of its loop with g_gimbalMutex not in
\* its hands; while g_running is set neither loop has ended, and a thread at
\* the test of its loop never holds the mutex.
C33_FaultCaughtAtLoopBoundary ==
    /\ [](\A th \in {"track", "patrol"} :
            /\ g_running => ~LoopEnded(th)
            /\ pc[th] = LoopHead(th) => g_gimbalMutex # th)
    /\ [][\A th \in {"track", "patrol"} :
            FaultOf(th) => /\ pc'[th] = LoopHead(th)
                           /\ g_gimbalMutex' # th
                           /\ ~LoopEnded(th)']_vars

\* the detection thread faulted with the mutex in its hands, and both loops
\* went on: a later tick began and the patrol thread holds the mutex
C33_Witness ==
    /\ call.op = "fault"
    /\ call.by = "track"
    /\ call.held
    /\ nTicks > call.iteration
    /\ g_gimbalMutex = "patrol"
    /\ g_running

\* ---------------------------------------------------------------- C34
LockThreads == {"main", "track", "patrol", "recv"}

\* the places where a thread takes g_gimbalMutex
GimbalLockSites ==
    [main |-> {}, recv |-> {}, patrol |-> {"p_step"},
     track |-> {"t_pic", "t_yaw", "t_fire", "t_lost_stop", "t_exit"}]

WaitsGimbal(th) ==
    Outside(th) /\ pc[th] \in GimbalLockSites[th] /\ g_gimbalMutex \notin {"none", th}
WaitsTransport(th) ==
    /\ Outside(th)
    /\ \E op \in {"send", "close", "available", "receive"} : AtTransportCall(th, op)
    /\ m_mutex # "none"
WaitsStatus(th) ==
    th = "recv" /\ pc.recv = "r_lock" /\ m_statusMutex # "none"
WaitsForLock(th) == WaitsGimbal(th) \/ WaitsTransport(th) \/ WaitsStatus(th)

\* a waits for a lock b holds, or main waits in a join for b to end
WaitsFor(a, b) ==
    \/ WaitsGimbal(a) /\ g_gimbalMutex = b
    \/ WaitsTransport(a) /\ m_mutex = b
    \/ WaitsStatus(a) /\ m_statusMutex = b
    \/ a = "main" /\ pc.main = "m_join_det" /\ b = "track" /\ pc.track # "t_done"
    \/ a = "main" /\ pc.main = "m_join_pat" /\ b = "patrol" /\ pc.patrol # "p_done"
    \/ a = "main" /\ pc.main = "c_join" /\ b = "recv" /\ pc.recv # "r_done"

WaitsVia2(a, b) == \E c \in LockThreads : WaitsFor(a, c) /\ WaitsFor(c, b)
WaitCycle ==
    \E a \in LockThreads :
        \/ WaitsFor(a, a)
        \/ WaitsVia2(a, a)
        \/ \E b \in LockThreads : WaitsVia2(a, b) /\ (WaitsFor(b, a) \/ WaitsVia2(b, a))

\* C34: no reachable state has a cycle of threads each waiting for a lock the
\* next one holds (or, for main, for the next one to end); under fair
\* scheduling every lock that is held is given back, and every thread that
\* waits for a lock stops waiting.
C34_DeadlockFreedom ==
    /\ []~WaitCycle
    /\ (g_gimbalMutex # "none" ~> g_gimbalMutex = "none")
    /\ (m_mutex # "none" ~> m_mutex = "none")
    /\ (m_statusMutex # "none" ~> m_statusMutex = "none")
    /\ \A th \in LockThreads : (WaitsForLock(th) ~> ~WaitsForLock(th))

\* the patrol thread holds g_gimbalMutex and waits for m_mutex, which the
\* telemetry thread holds, while the detection thread waits for g_gimbalMutex
C34_Witness ==
    /\ g_gimbalMutex = "patrol"
    /\ WaitsTransport("patrol")
    /\ m_mutex = "recv"
    /\ WaitsGimbal("track")

\* everything has ended with the three locks free
C34_AllEnded ==
    /\ pc.main = "m_done" /\ AllThreadsDone
    /\ g_gimbalMutex = "none" /\ m_mutex = "none" /\ m_statusMutex = "none"
    /\ rx.last = "stored"

\* ---------------------------------------------------------------- C35
ReopenCall == call'.op = "open" /\ m_isOpen

\* what open does on an open transport when the second lock of m_mutex goes
\* on: the handle is closed first, then the requested port is opened and its
\* result returned.
C35_ReopenWhenItGoesOn ==
    [][(ReopenCall /\ call'.ret # "hang") =>
          /\ Len(call'.os) >= 2
          /\ call'.os[1] = "close" /\ call'.os[2] = "open"
          /\ m_port' = call'.port
          /\ (call'.ret = "true") = m_isOpen']_vars

\* C35: open on a transport that is already open always returns, and never
\* blocks on the transport's own lock.
C35_ReopenReturns ==
    [][ReopenCall => call'.ret # "hang"]_vars

\* ---------------------------------------------------------------- C36
\* m_yawAngle before a patrol tick is the yaw of the last command (the
\* constructor's value sent by initialize, or the last setYawAngle); after the
\* tick it is the yaw the patrol loop commands.
YawJump == Abs(m_yawAngle' - m_yawAngle)

FirstPatrolTick == PatrolTick /\ nPatrol = 0
PatrolTickAfterTracking ==
    PatrolTick /\ nPatrol > 0 /\ lastWrite.by = "track" /\ ~g_targetLock

C36_AfterStartup == [][FirstPatrolTick => YawJump <= PatrolSpeed]_vars
C36_AfterRelease == [][PatrolTickAfterTracking => YawJump <= PatrolSpeed]_vars

\* C36: on the first patrol tick after startup, and on the first patrol tick
\* after a lock is released, the yaw the patrol loop commands is within one
\* patrol step (50) of the yaw commanded before it.
C36_PatrolResumes ==
    [][(FirstPatrolTick \/ PatrolTickAfterTracking) => YawJump <= PatrolSpeed]_vars

\* ---------------------------------------------------------------- C37
\* a tick has just ended (and been stamped)
TickStamped == pc.track = "t_key" /\ FireClock.stage = "idle"
TurnedOn == TickStamped /\ tick.shoot = 0 /\ m_shootStatus = 1
TurnedOff == TickStamped /\ tick.shoot = 1 /\ m_shootStatus = 0

\* the off time is kept after an edge of the duty cycle
C37_MinOffAfterPulseEdge ==
    (TurnedOn /\ FireClock.why = "pulse") => FireClock.offAtOn >= ShootPulseOff

\* C37: a tick turns shoot on only if shoot never went 1 -> 0 before, or went
\* 1 -> 0 (for whatever reason) at least 0.2 s earlier.
C37_MinimumOffTime ==
    TurnedOn => (FireClock.offAtOn = -1 \/ FireClock.offAtOn >= ShootPulseOff)

\* ---------------------------------------------------------------- C38
\* C38: at the end of every tick at which shoot is 1, less than 0.4 s have
\* passed since the tick that turned it on; a tick that finds shoot at 1 with
\* 0.4 s or more passed since that tick ends with shoot at 0.
C38_MaximumOnTime ==
    TickStamped =>
        /\ m_shootStatus = 1 => FireClock.on \in 0..(ShootPulseOn - 1)
        /\ (tick.shoot = 1 /\ FireClock.on >= ShootPulseOn) => m_shootStatus = 0

\* a centred tick 0.4 s after the on edge has turned the signal off
C38_Witness ==
    /\ TurnedOff
    /\ FireClock.why = "pulse"
    /\ FireClock.onAtOff = ShootPulseOn
    /\ FireClock.off = 0

\* a tick without candidate 0.4 s after the on edge has turned the signal off
C38_LostTickTurnsOff ==
    /\ TurnedOff
    /\ FireClock.why = "lost"
    /\ FireClock.onAtOff = ShootPulseOn

\* the signal is still on 0.35 s after its on edge
C38_StillOn ==
    TickStamped /\ tick.shoot = 1 /\ m_shootStatus = 1 /\ FireClock.on = ShootPulseOn - 1

\* ---------------------------------------------------------------- C39
PatrolRunning == pc.patrol \notin {"off", "p_done"}

\* C39: with no target ever locked and the running flag set, the patrol yaw
\* comes to 28000 and to 2000 again and again; from 15000 it goes up to 28000
\* first, without turning; and no step is shorter than the minimum step of 30
\* except the one cut at a limit.
C39_PatrolKeepsSweeping ==
    /\ PatrolRunning ~> (currentAngle = LeftLimit)
    /\ PatrolRunning ~> (currentAngle = RightLimit)
    /\ []((SweepLog.left = 0 /\ currentAngle # LeftLimit) =>
             (direction = 1 /\ currentAngle >= CenterAngle /\ SweepLog.right = 0))
    /\ [][PatrolTick =>
             \/ Abs(currentAngle' - currentAngle) >= MinSpeed
             \/ currentAngle' \in {LeftLimit, RightLimit}]_vars
    /\ [](nPatrol < MaxSweepSteps)

\* the sweep has been at 28000 twice and at 2000 twice
C39_Witness ==
    /\ SweepLog.left = 2
    /\ SweepLog.right = 2
    /\ g_running
    /\ ~g_targetLock

====
